---- MODULE Spec2Model ----
(***************************************************************************)
(* Hierarchy reconstruction of AkomaNtoso: the breadth-first builder       *)
(* extract_level_by_level (sequential and thread-pool mode), the recursive *)
(* builders extract_hierarchy_dynamic / extract_hierarchy_fixed and the    *)
(* title repair pass fill_missing_titles, all of                           *)
(* src/src/parser/level_extractor.py, over the line index of               *)
(* src/src/extractor/line_numbered_extractor.py; further _build_tree of    *)
(* src/src/parser/dynamic_extractor.py, clean_text of                      *)
(* src/src/extractor/text_cleaner.py and extract_document of               *)
(* src/src/parser/document_extractor.py, each under a specification of its *)
(* own.                                                                    *)
(*                                                                         *)
(* The tree is kept as a store of HierarchyNode records addressed by       *)
(* position (a Python object reference is a position in `nodes`); a        *)
(* node's children field is the list of the positions of its children.     *)
(* Optional[...] values are None == <<>> or Some(x) == <<x>>.  A text made *)
(* by '\n'.join(...) is the sequence of the joined lines, so "" is <<>>.   *)
(* The LLM is the environment: each call answers with any list of at most  *)
(* MaxSegs segments out of Candidates(range), or raises.                   *)
(***************************************************************************)
EXTENDS Integers, Sequences, FiniteSets, TLC

\* ---------------------------------------------------------------- bounds
NumLines == 6
MaxSegs == 2
MaxNodes == 4
MaxDepth == 3
MaxWorkers == 2
MaxRawLines == 4
MaxIndexLines == 10
MaxFlat == 3
MaxRetries == 4
MaxChapters == 3

VARIABLES
    entry,                  \* which public function runs
    line_infos,             \* List[LineInfo]
    max_depth, parallel, max_workers, hierarchy_types,   \* arguments
    pc,                     \* position of the main thread
    nodes,                  \* store of HierarchyNode
    root_nodes,             \* returned list (positions)
    current_level, nodes_at_current_level, nodes_at_next_level,
    parents_to_process,
    seq_i,                  \* index of the sequential for loop
    futures,                \* parallel mode: one future per parent
    calls,                  \* log of discover_children / extract_level calls
    reported,               \* log of on_level_complete(level, nodes)
    stack,                  \* call stack of the recursive builders
    nodes_missing_title,    \* fill_missing_titles: the collected nodes
    title_i,                \* index of its for loop
    run,                    \* which run of fill_missing_titles is under way
    nodes_before,           \* the store when the first run started
    nodes_after_first,      \* the store when the first run returned
    title_queries,          \* log of find_missing_title calls
    raw_text,               \* extract_with_line_info: raw_text.split('\n')
    raw_i,                  \* index of its for loop
    cur_line_num, current_page,   \* its counters line_num and current_page
    last_call,              \* the last call of a function of the line index
    functional_oracle,      \* the LLM answers a range the same way every time
    mode_run,               \* two builds in succession: which one is under way
    first_result,           \* what the first build returned
    first_calls,            \* the calls log of the first build
    flat_nodes,             \* _build_tree: the flat list of records
    node_map, all_nodes,    \* its dict and its list of (node, parent_number)
    bt_i,                   \* index of its for loops
    max_retries,            \* clean_text: its argument
    attempt, code, cleaned, \* its locals; cleaned is unbound before the first
    clean_events,           \* log of executions and code requests
    returned,               \* what clean_text returned or raised
    chapters_raw,           \* extract_document: the list of extract_chapters
    extracted_chapters      \* its result list

vars == <<entry, line_infos, max_depth, parallel, max_workers, hierarchy_types,
          pc, nodes, root_nodes, current_level, nodes_at_current_level,
          nodes_at_next_level, parents_to_process, seq_i, futures, calls,
          reported, stack, nodes_missing_title, title_i, run, nodes_before,
          nodes_after_first, title_queries, raw_text, raw_i,
          cur_line_num, current_page, last_call, functional_oracle, mode_run,
          first_result, first_calls, flat_nodes, node_map, all_nodes, bt_i,
          max_retries, attempt, code, cleaned, clean_events, returned,
          chapters_raw, extracted_chapters>>

\* ------------------------------------------------------------- optionals
NoneVal == <<>>
Some(x) == <<x>>

Min(a, b) == IF a < b THEN a ELSE b
Max(a, b) == IF a > b THEN a ELSE b

\* ------------------------------------------------------------ line index
LineInfo(i) == [line_num |-> i, page |-> (i + 1) \div 2, text |-> <<"line", i>>]

\* the index extract_with_line_info builds for a text of n surviving lines
MkLineInfos(n) == [i \in 1..n |-> LineInfo(i)]

\* len(str(n)) for n >= 0
StrLen(n) == IF n < 10 THEN 1 ELSE IF n < 100 THEN 2 ELSE 3

Subset(lis, start_line, end_line) ==
    SelectSeq(lis, LAMBDA li : start_line <= li.line_num /\ li.line_num <= end_line)

\* format_numbered_text without `if not line_infos`: line_infos[-1] of an
\* empty list raises IndexError
format_numbered_text_unguarded(lis) ==
    IF lis = <<>> THEN <<"IndexError">>
    ELSE LET max_width == StrLen(lis[Len(lis)].line_num)
         IN  [k \in 1..Len(lis) |->
                [pad  |-> Max(0, max_width - StrLen(lis[k].line_num)),
                 num  |-> lis[k].line_num,
                 text |-> lis[k].text]]

\* f"{li.line_num:>{max_width}}| {li.text}": pad blanks, the number, the text
format_numbered_text(lis) ==
    IF lis = <<>> THEN <<>>
    ELSE LET max_width == StrLen(lis[Len(lis)].line_num)
         IN  [k \in 1..Len(lis) |->
                [pad  |-> Max(0, max_width - StrLen(lis[k].line_num)),
                 num  |-> lis[k].line_num,
                 text |-> lis[k].text]]

get_lines_slice(lis, start_line, end_line) ==
    format_numbered_text(Subset(lis, start_line, end_line))

get_content(lis, start_line, end_line) ==
    LET subset == Subset(lis, start_line, end_line)
    IN  [k \in 1..Len(subset) |-> subset[k].text]

RECURSIVE page_scan(_, _, _)
page_scan(lis, k, line_num) ==
    IF k > Len(lis) THEN 1
    ELSE IF lis[k].line_num = line_num THEN lis[k].page
    ELSE page_scan(lis, k + 1, line_num)

get_page_for_line(lis, line_num) == page_scan(lis, 1, line_num)

\* ---------------------------------------------------------------- oracle
Segment(type, number, title, start_line, end_line) ==
    [type |-> type, number |-> number, title |-> title,
     start_line |-> start_line, end_line |-> end_line]

\* What the LLM may name for the range [s, e]: the range itself, its two
\* halves, a segment overlapping the first half, a segment reaching past e.
Candidates(s, e) ==
    LET m == (s + e) \div 2
    IN  { Segment("part", "A", NoneVal, s, e),
          Segment("chapter", "I", Some("Preliminary"), s, m),
          Segment("chapter", "II", NoneVal, m + 1, e),
          Segment("section", "2", NoneVal, m, e),
          Segment("section", "3", Some("Penalties"), m + 1, e + 1) }

RECURSIVE SegCount(_)
SegCount(log) ==
    IF log = <<>> THEN 0 ELSE Len(Head(log).segments) + SegCount(Tail(log))

\* segments the model still lets the LLM return
Room == MaxNodes - SegCount(calls)

Ok(segs) == [ok |-> TRUE, segments |-> segs]
Raised == [ok |-> FALSE, segments |-> <<>>]

\* the LLM calls made so far for the range [s, e], over both builds
PriorCalls == first_calls \o calls
Asked(s, e) == {c \in 1..Len(PriorCalls) :
                  /\ PriorCalls[c].llm
                  /\ PriorCalls[c].start_line = s /\ PriorCalls[c].end_line = e}

\* _call_llm_for_segments: any list of segments, or an exception; an LLM
\* that is a function of the range repeats its earlier answer
LlmOutcomes(s, e) ==
    IF functional_oracle /\ Asked(s, e) # {}
    THEN {LET c == PriorCalls[CHOOSE x \in Asked(s, e) : TRUE]
          IN  [ok |-> c.ok, segments |-> c.segments]}
    ELSE { Ok(r) : r \in UNION { [1..n -> Candidates(s, e)] :
                                   n \in 0..Min(MaxSegs, Room) } }
         \cup {Raised}

\* discover_children: no LLM call for a blank slice
discover_children(lis, s, e) ==
    IF get_lines_slice(lis, s, e) = <<>> THEN {Ok(<<>>)} ELSE LlmOutcomes(s, e)

CallRec(fn, node, s, e, level, etype, out) ==
    [fn |-> fn, node |-> node, start_line |-> s, end_line |-> e, level |-> level,
     element_type |-> etype, llm |-> get_lines_slice(line_infos, s, e) # <<>>,
     ok |-> out.ok, segments |-> out.segments]

\* ------------------------------------------------------------------ tree
\* the constructor call with content=get_content(...) for content=None
HierarchyNodeWithContent(level, seg, content, children) ==
    [level |-> level, type |-> seg.type, number |-> seg.number, title |-> seg.title,
     content |-> Some(get_content(line_infos, seg.start_line, seg.end_line)),
     start_line |-> seg.start_line, end_line |-> seg.end_line,
     page |-> get_page_for_line(line_infos, seg.start_line), children |-> children]

HierarchyNode(level, seg, content, children) ==
    [level |-> level, type |-> seg.type, number |-> seg.number, title |-> seg.title,
     content |-> content, start_line |-> seg.start_line, end_line |-> seg.end_line,
     page |-> get_page_for_line(line_infos, seg.start_line), children |-> children]

\* the loop without its same-range test
SkipNothing(parent, segs) == segs

\* "Skip if child has same range as parent"
SkipSameRange(parent, segs) ==
    SelectSeq(segs, LAMBDA sg : ~(sg.start_line = parent.start_line
                                  /\ sg.end_line = parent.end_line))

\* parent.children.insert(0, child_node) for each new child, in turn
InsertChildrenFirst(children, ids) ==
    [k \in 1..Len(ids) |-> ids[Len(ids) + 1 - k]] \o children

\* parent.children.append(child_node) for each new child, in turn
AppendChildren(children, ids) == children \o ids

\* the for-seg loop appending to the first parent of the level, whichever
\* parent was queried
AttachToFirstParent(store, p, segs, level) ==
    LET acc == SkipSameRange(store[p], segs)
        ids == [k \in 1..Len(acc) |-> Len(store) + k]
        new == [k \in 1..Len(acc) |-> HierarchyNode(level, acc[k], NoneVal, <<>>)]
    IN  [(store \o new) EXCEPT ![parents_to_process[1]].children =
                                   AppendChildren(@, ids)]

\* the for-seg loop of one parent: the store after it
AttachChildren(store, p, segs, level) ==
    LET acc == SkipSameRange(store[p], segs)
        ids == [k \in 1..Len(acc) |-> Len(store) + k]
        new == [k \in 1..Len(acc) |-> HierarchyNode(level, acc[k], NoneVal, <<>>)]
    IN  [(store \o new) EXCEPT ![p].children = AppendChildren(@, ids)]

\* the positions of the children the loop created
NewIds(store, p, segs) ==
    [k \in 1..Len(SkipSameRange(store[p], segs)) |-> Len(store) + k]

\* _fill_leaf_content without its children test
fill_every_content(store, lis) ==
    [i \in 1..Len(store) |->
        [store[i] EXCEPT !.content =
            Some(get_content(lis, store[i].start_line, store[i].end_line))]]

\* _fill_leaf_content taking the content of the node's first line only
fill_leaf_first_line(store, lis) ==
    [i \in 1..Len(store) |->
        IF store[i].children # <<>> THEN store[i]
        ELSE [store[i] EXCEPT !.content =
                 Some(get_content(lis, store[i].start_line, store[i].start_line))]]

\* _fill_leaf_content: every node reachable from the roots is in the store
fill_leaf_content(store, lis) ==
    [i \in 1..Len(store) |->
        IF store[i].children # <<>> THEN store[i]
        ELSE [store[i] EXCEPT !.content =
                 Some(get_content(lis, store[i].start_line, store[i].end_line))]]

Range(s) == {s[k] : k \in 1..Len(s)}

\* ------------------------------------------------------------------ Init
\* no function of the line index has been called
NoCall == [fn |-> "", start_line |-> 0, end_line |-> 0, value |-> <<>>]

HierarchyTypes == <<"chapter", "section", "subsection">>

\* no build has gone before
NoResult == [returned |-> FALSE, roots |-> <<>>]

\* a single build against an unconstrained LLM
NoComparison ==
    /\ functional_oracle = FALSE
    /\ mode_run = 0
    /\ first_result = NoResult
    /\ first_calls = <<>>

\* _build_tree, clean_text and extract_document are not running
ToolsIdle ==
    /\ flat_nodes = <<>>
    /\ node_map = <<>>
    /\ all_nodes = <<>>
    /\ bt_i = 0
    /\ max_retries = 0
    /\ attempt = 0
    /\ code = 0
    /\ cleaned = <<>>
    /\ clean_events = <<>>
    /\ returned = <<>>
    /\ chapters_raw = <<>>
    /\ extracted_chapters = <<>>

InitRunLocals ==
    /\ pc = "start"
    /\ nodes = <<>>
    /\ root_nodes = <<>>
    /\ current_level = 0
    /\ nodes_at_current_level = <<>>
    /\ nodes_at_next_level = <<>>
    /\ parents_to_process = <<>>
    /\ seq_i = 0
    /\ futures = <<>>
    /\ calls = <<>>
    /\ reported = <<>>
    /\ stack = <<>>
    /\ nodes_missing_title = <<>>
    /\ title_i = 0
    /\ run = 0
    /\ nodes_before = <<>>
    /\ nodes_after_first = <<>>
    /\ title_queries = <<>>
    /\ raw_text = <<>>
    /\ raw_i = 0
    /\ cur_line_num = 0
    /\ current_page = 1
    /\ last_call = NoCall

InitLocals == InitRunLocals /\ NoComparison /\ ToolsIdle

\* a call of extract_level_by_level(line_infos, max_depth, parallel, max_workers);
\* max_workers is read in parallel mode only
InitBfs ==
    /\ entry = "level_by_level"
    /\ line_infos \in {MkLineInfos(0), MkLineInfos(NumLines)}
    /\ max_depth \in 0..MaxDepth
    /\ parallel \in BOOLEAN
    /\ max_workers \in (IF parallel THEN 1..MaxWorkers ELSE {MaxWorkers})
    /\ hierarchy_types = <<>>
    /\ InitLocals

Init == InitBfs

\* ------------------------------------------------ extract_level_by_level
args == <<entry, line_infos, max_depth, parallel, max_workers, hierarchy_types>>
repairVars == <<nodes_missing_title, title_i, run, nodes_before, nodes_after_first,
                title_queries>>
indexVars == <<raw_text, raw_i, cur_line_num, current_page, last_call>>
compareVars == <<functional_oracle, mode_run, first_result, first_calls>>
toolVars == <<flat_nodes, node_map, all_nodes, bt_i, max_retries, attempt, code,
              cleaned, clean_events, returned, chapters_raw, extracted_chapters>>
bfsIdle == <<args, stack, repairVars, indexVars, compareVars, toolVars>>

\* the test that never stops the run
SegmentsNeverEmpty(segments) == FALSE

\* line 439: `if not segments`
NoSegments(segments) == segments = <<>>

\* lines 427-463: empty index, the level-1 discovery, the root nodes
BfsStart ==
    /\ entry = "level_by_level" /\ pc = "start"
    /\ IF line_infos = <<>>
       THEN /\ pc' = "done"
            /\ UNCHANGED <<nodes, root_nodes, current_level, nodes_at_current_level,
                           calls, reported>>
       ELSE LET start_line == line_infos[1].line_num
                end_line == line_infos[Len(line_infos)].line_num
            IN \E out \in discover_children(line_infos, start_line, end_line) :
                /\ calls' = Append(calls, CallRec("discover_children", 0, start_line,
                                                  end_line, 0, "", out))
                /\ IF ~out.ok
                   THEN /\ pc' = "raised"
                        /\ UNCHANGED <<nodes, root_nodes, current_level,
                                       nodes_at_current_level, reported>>
                   ELSE IF NoSegments(out.segments)
                   THEN /\ pc' = "done"
                        /\ UNCHANGED <<nodes, root_nodes, current_level,
                                       nodes_at_current_level, reported>>
                   ELSE LET segs == out.segments
                            ids == [k \in 1..Len(segs) |-> k]
                        IN /\ nodes' = [k \in 1..Len(segs) |->
                                           HierarchyNode(1, segs[k], NoneVal, <<>>)]
                           /\ root_nodes' = ids
                           /\ reported' = Append(reported, [level |-> 1, nodes |-> ids])
                           /\ current_level' = 1
                           /\ nodes_at_current_level' = ids
                           /\ pc' = "loop"
    /\ UNCHANGED <<bfsIdle, nodes_at_next_level, parents_to_process, seq_i, futures>>

\* the filter that lets every parent through
ProcessEveryParent(parent) == TRUE

\* line 472: `if p.end_line - p.start_line >= 2`
NeedsProcessing(parent) == parent.end_line - parent.start_line >= 2

\* lines 465-479: the loop test, the parents filter, the mode
LevelBegin ==
    /\ entry = "level_by_level" /\ pc = "loop"
    /\ current_level < max_depth /\ nodes_at_current_level # <<>>
    /\ LET ptp == SelectSeq(nodes_at_current_level,
                            LAMBDA p : NeedsProcessing(nodes[p]))
       IN /\ parents_to_process' = ptp
          /\ nodes_at_next_level' = <<>>
          /\ IF parallel /\ Len(ptp) > 1
             THEN /\ futures' = [k \in 1..Len(ptp) |->
                                   [st |-> "pending", out |-> Ok(<<>>)]]
                  /\ pc' = "par"
                  /\ seq_i' = 0
             ELSE /\ futures' = <<>>
                  /\ pc' = "seq"
                  /\ seq_i' = 1
    /\ UNCHANGED <<bfsIdle, nodes, root_nodes, current_level, nodes_at_current_level,
                   calls, reported>>

\* lines 513-535: one iteration of the sequential for loop
SeqProcessParent ==
    /\ entry = "level_by_level" /\ pc = "seq"
    /\ seq_i <= Len(parents_to_process)
    /\ LET p == parents_to_process[seq_i]
           parent == nodes[p]
       IN \E out \in discover_children(line_infos, parent.start_line, parent.end_line) :
            /\ calls' = Append(calls, CallRec("discover_children", p, parent.start_line,
                                              parent.end_line, parent.level, "", out))
            /\ IF ~out.ok
               THEN /\ pc' = "raised"
                    /\ UNCHANGED <<nodes, nodes_at_next_level, seq_i>>
               ELSE /\ nodes' = AttachChildren(nodes, p, out.segments, current_level + 1)
                    /\ nodes_at_next_level' =
                          nodes_at_next_level \o NewIds(nodes, p, out.segments)
                    /\ seq_i' = seq_i + 1
                    /\ pc' = "seq"
    /\ UNCHANGED <<bfsIdle, root_nodes, current_level, nodes_at_current_level,
                   parents_to_process, futures, reported>>

\* the sequential for loop is exhausted
SeqLoopEnd ==
    /\ entry = "level_by_level" /\ pc = "seq"
    /\ seq_i > Len(parents_to_process)
    /\ pc' = "levelend"
    /\ UNCHANGED <<bfsIdle, nodes, root_nodes, current_level, nodes_at_current_level,
                   nodes_at_next_level, parents_to_process, seq_i, futures, calls,
                   reported>>

\* A future is "pending" from its submission until its work item has run.
\* ThreadPoolExecutor hands the queued work items to its max_workers threads
\* oldest first, so the items in a thread are the first max_workers pending.
Pending == {k \in 1..Len(futures) : futures[k].st = "pending"}
InWorker(k) ==
    k \in Pending /\ Cardinality({j \in Pending : j < k}) < max_workers

\* lines 481-483: process_parent returns or raises in its worker
WorkerFinish(k) ==
    /\ entry = "level_by_level" /\ pc \in {"par", "drain"}
    /\ InWorker(k)
    /\ LET p == parents_to_process[k]
           parent == nodes[p]
       IN \E out \in discover_children(line_infos, parent.start_line, parent.end_line) :
            /\ calls' = Append(calls, CallRec("discover_children", p, parent.start_line,
                                              parent.end_line, parent.level, "", out))
            /\ futures' = [futures EXCEPT ![k] = [st |-> "finished", out |-> out]]
    /\ UNCHANGED <<bfsIdle, pc, nodes, root_nodes, current_level, nodes_at_current_level,
                   nodes_at_next_level, parents_to_process, seq_i, reported>>

\* the as_completed loop taking the parent by the future's rank from the
\* end of the submission order, not the parent the worker returned
ConsumeFutureSwapped(k) ==
    /\ entry = "level_by_level" /\ pc = "par"
    /\ k \in 1..Len(futures) /\ futures[k].st = "finished"
    /\ LET p == parents_to_process[Len(futures) + 1 - k]
           out == futures[k].out
       IN /\ futures' = [futures EXCEPT ![k].st = "consumed"]
          /\ IF ~out.ok
             THEN /\ pc' = "drain"
                  /\ UNCHANGED <<nodes, nodes_at_next_level>>
             ELSE /\ nodes' = AttachChildren(nodes, p, out.segments, current_level + 1)
                  /\ nodes_at_next_level' =
                        nodes_at_next_level \o NewIds(nodes, p, out.segments)
                  /\ pc' = "par"
    /\ UNCHANGED <<bfsIdle, root_nodes, current_level, nodes_at_current_level,
                   parents_to_process, seq_i, calls, reported>>

\* lines 488-510: as_completed yields a finished future; future.result()
\* re-raises the worker's exception, which leaves the with block
ConsumeFuture(k) ==
    /\ entry = "level_by_level" /\ pc = "par"
    /\ k \in 1..Len(futures) /\ futures[k].st = "finished"
    /\ LET p == parents_to_process[k]
           out == futures[k].out
       IN /\ futures' = [futures EXCEPT ![k].st = "consumed"]
          /\ IF ~out.ok
             THEN /\ pc' = "drain"
                  /\ UNCHANGED <<nodes, nodes_at_next_level>>
             ELSE /\ nodes' = AttachChildren(nodes, p, out.segments, current_level + 1)
                  /\ nodes_at_next_level' =
                        nodes_at_next_level \o NewIds(nodes, p, out.segments)
                  /\ pc' = "par"
    /\ UNCHANGED <<bfsIdle, root_nodes, current_level, nodes_at_current_level,
                   parents_to_process, seq_i, calls, reported>>

\* the as_completed loop left after the first results, the others not awaited
ParLoopEndEarly ==
    /\ entry = "level_by_level" /\ pc = "par"
    /\ \E k \in 1..Len(futures) : futures[k].st = "consumed"
    /\ pc' = "levelend"
    /\ UNCHANGED <<bfsIdle, nodes, root_nodes, current_level, nodes_at_current_level,
                   nodes_at_next_level, parents_to_process, seq_i, futures, calls,
                   reported>>

\* as_completed is exhausted; the with block exits normally
ParLoopEnd ==
    /\ entry = "level_by_level" /\ pc = "par"
    /\ \A k \in 1..Len(futures) : futures[k].st = "consumed"
    /\ pc' = "levelend"
    /\ UNCHANGED <<bfsIdle, nodes, root_nodes, current_level, nodes_at_current_level,
                   nodes_at_next_level, parents_to_process, seq_i, futures, calls,
                   reported>>

\* the with block left on the exception without joining the workers
DrainEndAbort ==
    /\ entry = "level_by_level" /\ pc = "drain"
    /\ pc' = "raised"
    /\ UNCHANGED <<bfsIdle, nodes, root_nodes, current_level, nodes_at_current_level,
                   nodes_at_next_level, parents_to_process, seq_i, futures, calls,
                   reported>>

\* the with block exits on the exception: shutdown(wait=True) joins the
\* workers when every submitted work item has run, then the exception
\* leaves extract_level_by_level
DrainEnd ==
    /\ entry = "level_by_level" /\ pc = "drain"
    /\ Pending = {}
    /\ pc' = "raised"
    /\ UNCHANGED <<bfsIdle, nodes, root_nodes, current_level, nodes_at_current_level,
                   nodes_at_next_level, parents_to_process, seq_i, futures, calls,
                   reported>>

\* the callback without its `and nodes_at_next_level` test
LevelEndReportingEmpty ==
    /\ entry = "level_by_level" /\ pc = "levelend"
    /\ reported' = Append(reported, [level |-> current_level + 1,
                                     nodes |-> nodes_at_next_level])
    /\ current_level' = current_level + 1
    /\ nodes_at_current_level' = nodes_at_next_level
    /\ pc' = "loop"
    /\ UNCHANGED <<bfsIdle, nodes, root_nodes, nodes_at_next_level, parents_to_process,
                   seq_i, futures, calls>>

\* lines 537-542: on_level_complete, then the move to the next level
LevelEnd ==
    /\ entry = "level_by_level" /\ pc = "levelend"
    /\ reported' = IF nodes_at_next_level # <<>>
                   THEN Append(reported, [level |-> current_level + 1,
                                          nodes |-> nodes_at_next_level])
                   ELSE reported
    /\ current_level' = current_level + 1
    /\ nodes_at_current_level' = nodes_at_next_level
    /\ pc' = "loop"
    /\ UNCHANGED <<bfsIdle, nodes, root_nodes, nodes_at_next_level, parents_to_process,
                   seq_i, futures, calls>>

\* lines 544-547: the loop is left, the leaves are filled, the roots returned
BfsFinish ==
    /\ entry = "level_by_level" /\ pc = "loop"
    /\ ~(current_level < max_depth /\ nodes_at_current_level # <<>>)
    /\ nodes' = fill_leaf_content(nodes, line_infos)
    /\ pc' = "done"
    /\ UNCHANGED <<bfsIdle, root_nodes, current_level, nodes_at_current_level,
                   nodes_at_next_level, parents_to_process, seq_i, futures, calls,
                   reported>>

NextBfs ==
    \/ BfsStart
    \/ LevelBegin
    \/ SeqProcessParent
    \/ SeqLoopEnd
    \/ \E k \in 1..MaxNodes : WorkerFinish(k)
    \/ \E k \in 1..MaxNodes : ConsumeFuture(k)
    \/ ParLoopEnd
    \/ DrainEnd
    \/ LevelEnd
    \/ BfsFinish

\* ------------------- extract_hierarchy_dynamic / extract_hierarchy_fixed
\* A frame is one activation: its arguments, its position (st), its locals.
Frame(start_line, end_line, level) ==
    [start_line |-> start_line, end_line |-> end_line, level |-> level,
     st |-> "call", segments |-> <<>>, i |-> 0, nodes |-> <<>>]

Top == stack[Len(stack)]

\* extract_level: the same blank-slice test, then the LLM
extract_level(lis, element_type, s, e) ==
    IF get_lines_slice(lis, s, e) = <<>> THEN {Ok(<<>>)} ELSE LlmOutcomes(s, e)

\* the node built with the activation's own level, without the `+ 1`
BuiltNodeAtCallLevel(level, seg, children) ==
    HierarchyNode(level, seg,
                  IF children = <<>>
                  THEN Some(get_content(line_infos, seg.start_line, seg.end_line))
                  ELSE NoneVal,
                  children)

\* lines 267-283 / 371-386: the node the caller builds from the returned
\* children: "If leaf node (no children), extract content"
BuiltNode(level, seg, children) ==
    HierarchyNode(level + 1, seg,
                  IF children = <<>>
                  THEN Some(get_content(line_infos, seg.start_line, seg.end_line))
                  ELSE NoneVal,
                  children)

\* `return v` of the top activation: the outermost call hands v to the
\* caller; an inner one resumes its caller's for loop, which builds the node
ReturnTo(v) ==
    IF Len(stack) = 1
    THEN /\ stack' = <<>>
         /\ root_nodes' = v
         /\ nodes' = nodes
         /\ pc' = "done"
    ELSE LET caller == stack[Len(stack) - 1]
             seg == caller.segments[caller.i]
         IN /\ nodes' = Append(nodes, BuiltNode(caller.level, seg, v))
            /\ stack' = SubSeq(stack, 1, Len(stack) - 2) \o
                        << [caller EXCEPT !.st = "loop", !.i = @ + 1,
                                          !.nodes = Append(@, Len(nodes) + 1)] >>
            /\ root_nodes' = root_nodes
            /\ pc' = "run"

EnterLoop(segs) ==
    /\ stack' = [stack EXCEPT ![Len(stack)] =
                    [@ EXCEPT !.st = "loop", !.segments = segs, !.i = 1]]
    /\ UNCHANGED <<nodes, root_nodes, pc>>

recIdle == <<args, current_level, nodes_at_current_level, nodes_at_next_level,
             parents_to_process, seq_i, futures, reported, repairVars, indexVars,
             compareVars, toolVars>>

\* extract_document_hierarchy, lines 306-319
DynamicStart ==
    /\ entry = "dynamic" /\ pc = "start"
    /\ IF line_infos = <<>>
       THEN pc' = "done" /\ stack' = stack
       ELSE /\ stack' = << Frame(line_infos[1].line_num,
                                 line_infos[Len(line_infos)].line_num, 0) >>
            /\ pc' = "run"
    /\ UNCHANGED <<recIdle, nodes, root_nodes, calls>>

\* a caller's extract_hierarchy_fixed(line_infos, types, start, end, level=0)
FixedStart ==
    /\ entry = "fixed" /\ pc = "start"
    /\ stack' = << Frame(1, NumLines, 0) >>
    /\ pc' = "run"
    /\ UNCHANGED <<recIdle, nodes, root_nodes, calls>>

\* extract_hierarchy_dynamic, lines 234-249
DynamicCall ==
    /\ entry = "dynamic" /\ pc = "run" /\ Top.st = "call"
    /\ IF Top.level >= max_depth \/ Top.end_line - Top.start_line < 2
       THEN ReturnTo(<<>>) /\ calls' = calls
       ELSE \E out \in discover_children(line_infos, Top.start_line, Top.end_line) :
              /\ calls' = Append(calls, CallRec("discover_children", 0, Top.start_line,
                                                Top.end_line, Top.level, "", out))
              /\ IF ~out.ok
                 THEN pc' = "raised" /\ UNCHANGED <<stack, nodes, root_nodes>>
                 ELSE IF out.segments = <<>>
                 THEN ReturnTo(<<>>)
                 ELSE EnterLoop(out.segments)
    /\ UNCHANGED recIdle

\* the type of the first depth, whatever the depth
first_element_type(types, level) == types[1]

\* line 350: `element_type = hierarchy_types[level]`, 0-based
element_type_at(types, level) == types[level + 1]

\* extract_hierarchy_fixed, lines 347-360
FixedCall ==
    /\ entry = "fixed" /\ pc = "run" /\ Top.st = "call"
    /\ IF Top.level >= Len(hierarchy_types)
       THEN ReturnTo(<<>>) /\ calls' = calls
       ELSE LET element_type == element_type_at(hierarchy_types, Top.level)
            IN \E out \in extract_level(line_infos, element_type,
                                        Top.start_line, Top.end_line) :
              /\ calls' = Append(calls, CallRec("extract_level", 0, Top.start_line,
                                                Top.end_line, Top.level, element_type,
                                                out))
              /\ IF ~out.ok
                 THEN pc' = "raised" /\ UNCHANGED <<stack, nodes, root_nodes>>
                 ELSE EnterLoop(out.segments)
    /\ UNCHANGED recIdle

\* lines 256-265 / 361-369: the for loop recurses into the next segment
RecDescend ==
    /\ entry \in {"dynamic", "fixed"} /\ pc = "run" /\ Top.st = "loop"
    /\ Top.i <= Len(Top.segments)
    /\ LET seg == Top.segments[Top.i]
       IN stack' = [stack EXCEPT ![Len(stack)].st = "wait"] \o
                   << Frame(seg.start_line, seg.end_line, Top.level + 1) >>
    /\ UNCHANGED <<recIdle, nodes, root_nodes, pc, calls>>

\* lines 285 / 388: the for loop is exhausted, `return nodes`
RecReturn ==
    /\ entry \in {"dynamic", "fixed"} /\ pc = "run" /\ Top.st = "loop"
    /\ Top.i > Len(Top.segments)
    /\ ReturnTo(Top.nodes)
    /\ UNCHANGED <<recIdle, calls>>

NextRec ==
    \/ DynamicStart
    \/ FixedStart
    \/ DynamicCall
    \/ FixedCall
    \/ RecDescend
    \/ RecReturn

\* a call of extract_document_hierarchy(line_infos, max_depth=...)
InitDynamic ==
    /\ entry = "dynamic"
    /\ line_infos \in {MkLineInfos(0), MkLineInfos(NumLines)}
    /\ max_depth \in 0..MaxDepth
    /\ parallel = FALSE
    /\ max_workers = 1
    /\ hierarchy_types = <<>>
    /\ InitLocals

\* a call of extract_hierarchy_fixed(line_infos, hierarchy_types, 1, NumLines)
InitFixed ==
    /\ entry = "fixed"
    /\ line_infos \in {MkLineInfos(0), MkLineInfos(NumLines)}
    /\ max_depth = 0
    /\ parallel = FALSE
    /\ max_workers = 1
    /\ hierarchy_types \in {SubSeq(HierarchyTypes, 1, n) : n \in 0..Len(HierarchyTypes)}
    /\ InitLocals

InitBuilders == InitBfs \/ InitDynamic \/ InitFixed

\* extract_hierarchy_fixed alone; the interpreter keeps the call running
NextFixed ==
    \/ FixedStart
    \/ FixedCall
    \/ RecDescend
    \/ RecReturn

SpecFixed == InitFixed /\ [][NextFixed]_vars /\ WF_vars(NextFixed)

\* ------------------------------------ two builds over the same line index
\* the tree below a node, as the value a caller can compare
RECURSIVE TreeOf(_, _)
TreeOf(store, i) ==
    [store[i] EXCEPT !.children =
        [k \in 1..Len(store[i].children) |-> TreeOf(store, store[i].children[k])]]

TreesOf(store, ids) == [k \in 1..Len(ids) |-> TreeOf(store, ids[k])]

\* the locals of the build that starts are fresh; the first build's result
\* and calls are kept for the comparison
StartNextBuild ==
    /\ mode_run = 1 /\ pc \in {"done", "raised"}
    /\ first_result' = [returned |-> pc = "done", roots |-> TreesOf(nodes, root_nodes)]
    /\ first_calls' = calls
    /\ pc' = "start"
    /\ nodes' = <<>>
    /\ root_nodes' = <<>>
    /\ current_level' = 0
    /\ nodes_at_current_level' = <<>>
    /\ nodes_at_next_level' = <<>>
    /\ parents_to_process' = <<>>
    /\ seq_i' = 0
    /\ futures' = <<>>
    /\ calls' = <<>>
    /\ reported' = <<>>
    /\ stack' = <<>>
    /\ UNCHANGED <<line_infos, max_depth, hierarchy_types, functional_oracle,
                   repairVars, indexVars, toolVars>>

\* after extract_level_by_level(line_infos, max_depth, parallel=False), the
\* caller calls it again with parallel=True and some max_workers
RestartParallel ==
    /\ entry = "level_by_level"
    /\ StartNextBuild
    /\ mode_run' = 2
    /\ parallel' = TRUE
    /\ max_workers' \in 1..MaxWorkers
    /\ UNCHANGED entry

\* after it, the caller calls extract_document_hierarchy(line_infos, max_depth)
RestartDynamic ==
    /\ entry = "level_by_level"
    /\ StartNextBuild
    /\ mode_run' = 3
    /\ entry' = "dynamic"
    /\ UNCHANGED <<parallel, max_workers>>

NextCompare ==
    \/ NextBfs
    \/ DynamicStart
    \/ DynamicCall
    \/ RecDescend
    \/ RecReturn
    \/ RestartParallel
    \/ RestartDynamic

\* the sequential breadth-first build against an LLM that is a function of
\* the range; the second build follows it
InitCompare ==
    /\ entry = "level_by_level"
    /\ line_infos \in {MkLineInfos(0), MkLineInfos(2), MkLineInfos(NumLines)}
    /\ max_depth \in 0..MaxDepth
    /\ parallel = FALSE
    /\ max_workers = MaxWorkers
    /\ hierarchy_types = <<>>
    /\ functional_oracle = TRUE
    /\ mode_run = 1
    /\ first_result = NoResult
    /\ first_calls = <<>>
    /\ InitRunLocals
    /\ ToolsIdle

SpecCompare == InitCompare /\ [][NextCompare]_vars

\* --------------------------------------------------- fill_missing_titles
\* collect_missing, lines 638-643: pre-order walk, nodes with title None
RECURSIVE Preorder(_, _)
Preorder(store, ids) ==
    IF ids = <<>> THEN <<>>
    ELSE <<Head(ids)>> \o Preorder(store, store[Head(ids)].children)
                       \o Preorder(store, Tail(ids))

\* collect_missing without its `title is None` test
collect_every(store, roots) == Preorder(store, roots)

collect_missing(store, roots) ==
    SelectSeq(Preorder(store, roots), LAMBDA i : store[i].title = NoneVal)

\* find_missing_title, lines 586-623: None for a blank text without asking
\* the LLM; else the LLM's "title": null, a string (maybe empty), or it raises
TitleAnswers == {NoneVal, Some(""), Some("Heading")}

find_missing_title(lis, start_line, end_line) ==
    IF get_content(lis, start_line, end_line) = <<>>
    THEN {[ok |-> TRUE, title |-> NoneVal]}
    ELSE {[ok |-> TRUE, title |-> t] : t \in TitleAnswers}
         \cup {[ok |-> FALSE, title |-> NoneVal]}

\* `if title:`
Truthy(title) == title # NoneVal /\ title # Some("")

\* lines 665-666
SetTitle(store, i, title) ==
    IF Truthy(title) THEN [store EXCEPT ![i].title = title] ELSE store

repairIdle == <<args, current_level, nodes_at_current_level, nodes_at_next_level,
                parents_to_process, seq_i, futures, reported, stack, calls,
                root_nodes, nodes_before, indexVars, compareVars, toolVars>>

\* lines 636-648: a run starts and collects
RepairCollect ==
    /\ entry = "repair" /\ pc = "start"
    /\ nodes_missing_title' = collect_missing(nodes, root_nodes)
    /\ title_i' = 1
    /\ pc' = "titles"
    /\ UNCHANGED <<repairIdle, nodes, run, nodes_after_first, title_queries>>

\* lines 653-668: one iteration of the for loop
FindTitle ==
    /\ entry = "repair" /\ pc = "titles"
    /\ title_i <= Len(nodes_missing_title)
    /\ LET i == nodes_missing_title[title_i]
           node == nodes[i]
       IN \E ans \in find_missing_title(line_infos, node.start_line, node.end_line) :
            /\ title_queries' = Append(title_queries,
                  [node |-> i, run |-> run, ok |-> ans.ok, title |-> ans.title,
                   llm |-> get_content(line_infos, node.start_line, node.end_line)
                           # <<>>])
            /\ IF ~ans.ok
               THEN pc' = "raised" /\ UNCHANGED <<nodes, title_i>>
               ELSE /\ nodes' = SetTitle(nodes, i, ans.title)
                    /\ title_i' = title_i + 1
                    /\ pc' = "titles"
    /\ UNCHANGED <<repairIdle, nodes_missing_title, run, nodes_after_first>>

\* the run returns (nothing collected, or the loop is exhausted); the caller
\* runs the pass a second time on the same tree
RepairReturn ==
    /\ entry = "repair" /\ pc = "titles"
    /\ title_i > Len(nodes_missing_title)
    /\ IF run = 1
       THEN /\ nodes_after_first' = nodes
            /\ run' = 2
            /\ pc' = "start"
       ELSE /\ pc' = "done"
            /\ UNCHANGED <<run, nodes_after_first>>
    /\ UNCHANGED <<repairIdle, nodes, nodes_missing_title, title_i, title_queries>>

NextRepair ==
    \/ RepairCollect
    \/ FindTitle
    \/ RepairReturn

\* The trees handed to fill_missing_titles: every shape of at most MaxNodes - 1
\* nodes (pv[i] is the parent of node i, 0 for a root), every choice of
\* present and missing titles.  The first child of a range is its first half,
\* the second its second half, a further one lies past the last line.
ParentVectors(k) == {pv \in [1..k -> 0..(k - 1)] : \A i \in 1..k : pv[i] < i}

SiblingIndex(pv, i) == Cardinality({j \in 1..i : pv[j] = pv[i]})

RECURSIVE ShapeSegment(_, _)
ShapeSegment(pv, i) ==
    LET encl == IF pv[i] = 0 THEN Segment("", "", NoneVal, 1, NumLines)
                ELSE ShapeSegment(pv, pv[i])
        m == (encl.start_line + encl.end_line) \div 2
        k == SiblingIndex(pv, i)
    IN  IF k = 1 THEN Segment("chapter", "I", NoneVal, encl.start_line, m)
        ELSE IF k = 2 THEN Segment("chapter", "II", NoneVal, m + 1, encl.end_line)
        ELSE Segment("section", "3", NoneVal, NumLines + 1, NumLines + 1)

RECURSIVE ShapeLevel(_, _)
ShapeLevel(pv, i) == IF pv[i] = 0 THEN 1 ELSE 1 + ShapeLevel(pv, pv[i])

ShapeChildren(pv, i) ==
    SelectSeq([j \in 1..Len(pv) |-> j], LAMBDA j : pv[j] = i)

\* the tree as a builder leaves it: content on the leaves only
ShapeTree(pv, titles) ==
    [i \in 1..Len(pv) |->
        LET seg == [ShapeSegment(pv, i) EXCEPT !.title = titles[i]]
            kids == ShapeChildren(pv, i)
        IN  HierarchyNode(ShapeLevel(pv, i), seg,
                IF kids = <<>>
                THEN Some(get_content(line_infos, seg.start_line, seg.end_line))
                ELSE NoneVal,
                kids)]

\* two runs of fill_missing_titles(nodes, line_infos) in succession
InitRepair ==
    /\ entry = "repair"
    /\ line_infos = MkLineInfos(NumLines)
    /\ max_depth = 0
    /\ parallel = FALSE
    /\ max_workers = 1
    /\ hierarchy_types = <<>>
    /\ pc = "start"
    /\ \E k \in 1..(MaxNodes - 1) : \E pv \in ParentVectors(k) :
         \E titles \in [1..k -> {NoneVal, Some("Preliminary")}] :
            /\ nodes = ShapeTree(pv, titles)
            /\ root_nodes = ShapeChildren(pv, 0)
    /\ nodes_before = nodes
    /\ current_level = 0
    /\ nodes_at_current_level = <<>>
    /\ nodes_at_next_level = <<>>
    /\ parents_to_process = <<>>
    /\ seq_i = 0
    /\ futures = <<>>
    /\ calls = <<>>
    /\ reported = <<>>
    /\ stack = <<>>
    /\ nodes_missing_title = <<>>
    /\ title_i = 0
    /\ run = 1
    /\ nodes_after_first = <<>>
    /\ title_queries = <<>>
    /\ raw_text = <<>>
    /\ raw_i = 0
    /\ cur_line_num = 0
    /\ current_page = 1
    /\ last_call = NoCall
    /\ NoComparison
    /\ ToolsIdle

SpecRepair == InitRepair /\ [][NextRepair]_vars

\* ------------------------------------------------ extract_with_line_info
\* A raw line is the sequence of its characters, "[PAGE:" standing for these
\* six characters in a row.  The lines extract_text may hand over: an empty
\* and a blank line, a text line, the markers of page 2 and page 20, a marker
\* followed by text, a line that only starts like a marker, a marker of
\* page 0, an indented marker.
RawLines ==
    { <<>>, <<" ">>, <<"a">>,
      <<"[PAGE:", "2", "]">>, <<"[PAGE:", "2", "0", "]">>,
      <<"[PAGE:", "2", "]", "a">>, <<"[PAGE:", "a">>,
      <<"[PAGE:", "0", "]">>, <<" ", "[PAGE:", "2", "]">> }

\* raw_text.split('\n') yields at least one line
RawTexts == UNION { [1..n -> RawLines] : n \in 1..MaxRawLines }

Digits == {"0", "2"}
DigitValue(c) == IF c = "0" THEN 0 ELSE 2

\* int(...) of a string of digits
RECURSIVE IntOf(_)
IntOf(ds) ==
    IF ds = <<>> THEN 0
    ELSE 10 * IntOf(SubSeq(ds, 1, Len(ds) - 1)) + DigitValue(ds[Len(ds)])

\* line.startswith('[PAGE:')
startswith_marker(line) == line # <<>> /\ line[1] = "[PAGE:"

\* the digits from position k on
RECURSIVE DigitRun(_, _)
DigitRun(line, k) ==
    IF k <= Len(line) /\ line[k] \in Digits
    THEN <<line[k]>> \o DigitRun(line, k + 1)
    ELSE <<>>

\* re.match(r'\[PAGE:(\d+)\]', line): group(1), or None; the pattern is
\* anchored at the start of the line only
re_match(line) ==
    LET ds == DigitRun(line, 2)
    IN  IF /\ startswith_marker(line) /\ ds # <<>>
           /\ Len(line) >= Len(ds) + 2 /\ line[Len(ds) + 2] = "]"
        THEN Some(ds) ELSE NoneVal

\* `not line.strip()`
Blank(line) == \A k \in 1..Len(line) : line[k] = " "

\* the loop body with `line_num += 1` ahead of the blank-line test
index_step_counting_blanks(st, line) ==
    IF startswith_marker(line)
    THEN IF re_match(line) # NoneVal
         THEN [st EXCEPT !.current_page = IntOf(re_match(line)[1])]
         ELSE st
    ELSE IF Blank(line) THEN [st EXCEPT !.line_num = @ + 1]
    ELSE [st EXCEPT !.line_num = @ + 1,
                    !.line_infos = Append(@, [line_num |-> st.line_num + 1,
                                              page |-> st.current_page,
                                              text |-> line])]

\* lines 34-50: the loop body, on the locals line_infos, line_num, current_page
index_step(st, line) ==
    IF startswith_marker(line)
    THEN IF re_match(line) # NoneVal
         THEN [st EXCEPT !.current_page = IntOf(re_match(line)[1])]
         ELSE st
    ELSE IF Blank(line) THEN st
    ELSE [st EXCEPT !.line_num = @ + 1,
                    !.line_infos = Append(@, [line_num |-> st.line_num + 1,
                                              page |-> st.current_page,
                                              text |-> line])]

buildVars == <<max_depth, parallel, max_workers, hierarchy_types, nodes, root_nodes,
               current_level, nodes_at_current_level, nodes_at_next_level,
               parents_to_process, seq_i, futures, calls, reported, stack,
               repairVars, compareVars, toolVars>>

\* lines 27-33: extract_text returns, the locals are set, the loop is entered
ExtractText ==
    /\ entry = "line_index" /\ pc = "start"
    /\ raw_text' \in RawTexts
    /\ line_infos' = <<>>
    /\ cur_line_num' = 0
    /\ current_page' = 1
    /\ raw_i' = 1
    /\ pc' = "lines"
    /\ UNCHANGED <<entry, buildVars, last_call>>

\* one iteration of `for line in raw_text.split('\n')`
IndexLine ==
    /\ entry = "line_index" /\ pc = "lines"
    /\ raw_i <= Len(raw_text)
    /\ LET st == index_step([line_infos |-> line_infos, line_num |-> cur_line_num,
                             current_page |-> current_page], raw_text[raw_i])
       IN /\ line_infos' = st.line_infos
          /\ cur_line_num' = st.line_num
          /\ current_page' = st.current_page
    /\ raw_i' = raw_i + 1
    /\ UNCHANGED <<entry, buildVars, raw_text, pc, last_call>>

\* lines 52-53: numbered_text, return
IndexReturn ==
    /\ entry = "line_index" /\ pc = "lines"
    /\ raw_i > Len(raw_text)
    /\ last_call' = [fn |-> "format_numbered_text", start_line |-> 0, end_line |-> 0,
                     value |-> format_numbered_text(line_infos)]
    /\ pc' = "done"
    /\ UNCHANGED <<entry, buildVars, line_infos, raw_text, raw_i, cur_line_num,
                   current_page>>

NextIndex ==
    \/ ExtractText
    \/ IndexLine
    \/ IndexReturn

\* a call of extract_with_line_info(pdf_path)
InitIndex ==
    /\ entry = "line_index"
    /\ line_infos = <<>>
    /\ max_depth = 0
    /\ parallel = FALSE
    /\ max_workers = 1
    /\ hierarchy_types = <<>>
    /\ InitLocals

SpecIndex == InitIndex /\ [][NextIndex]_vars

\* ------------------------------------------ get_lines_slice, get_content
\* the line numbers a caller may pass: 0 and one past the longest index too
LineArgs == 0..(MaxIndexLines + 1)

sliceIdle == <<entry, line_infos, buildVars, pc, raw_text, raw_i, cur_line_num,
               current_page>>

\* a call get_lines_slice(line_infos, start_line, end_line) returns
CallGetLinesSlice ==
    /\ entry = "slice"
    /\ \E start_line \in LineArgs : \E end_line \in LineArgs :
          last_call' = [fn |-> "get_lines_slice", start_line |-> start_line,
                        end_line |-> end_line,
                        value |-> get_lines_slice(line_infos, start_line, end_line)]
    /\ UNCHANGED sliceIdle

\* a call get_content(line_infos, start_line, end_line) returns
CallGetContent ==
    /\ entry = "slice"
    /\ \E start_line \in LineArgs : \E end_line \in LineArgs :
          last_call' = [fn |-> "get_content", start_line |-> start_line,
                        end_line |-> end_line,
                        value |-> get_content(line_infos, start_line, end_line)]
    /\ UNCHANGED sliceIdle

NextSlice ==
    \/ CallGetLinesSlice
    \/ CallGetContent

\* the callers hold the index of a document of any number of lines
InitSlice ==
    /\ entry = "slice"
    /\ line_infos \in {MkLineInfos(n) : n \in 0..MaxIndexLines}
    /\ max_depth = 0
    /\ parallel = FALSE
    /\ max_workers = 1
    /\ hierarchy_types = <<>>
    /\ InitLocals

SpecSlice == InitSlice /\ [][NextSlice]_vars

\* --------------------------------- _build_tree (dynamic_extractor.py)
\* a record of the flat list the LLM returned: the keys _build_tree reads
FlatRecords ==
    [level : 1..3, type : {"section"}, number : {"1", "2"},
     title : {NoneVal}, content : {NoneVal},
     parent_number : {NoneVal, Some("1"), Some("2")}]

FlatLists == UNION { [1..n -> FlatRecords] : n \in 0..MaxFlat }

\* lines 235-242: HierarchyNode(level=..., ..., children=[])
FlatNode(data) ==
    [level |-> data.level, type |-> data.type, number |-> data.number,
     title |-> data.title, content |-> data.content, children |-> <<>>]

\* node_map[key] = node: a later node with the key replaces the earlier one
MapPut(map, key, node) ==
    [k \in (DOMAIN map) \cup {key} |-> IF k = key THEN node ELSE map[k]]

treeIdle == <<line_infos, max_depth, parallel, max_workers, hierarchy_types,
              current_level, nodes_at_current_level, nodes_at_next_level,
              parents_to_process, seq_i, futures, calls, reported, stack,
              repairVars, indexVars, compareVars, max_retries, attempt, code,
              cleaned, clean_events, returned, chapters_raw, extracted_chapters>>

\* lines 229-231: the dict and the list are empty
BuildTreeStart ==
    /\ entry = "build_tree" /\ pc = "start"
    /\ node_map' = <<>>
    /\ all_nodes' = <<>>
    /\ bt_i' = 1
    /\ pc' = "pass1"
    /\ UNCHANGED <<entry, treeIdle, flat_nodes, nodes, root_nodes>>

\* lines 234-245: one iteration of the first pass
CreateNode ==
    /\ entry = "build_tree" /\ pc = "pass1"
    /\ bt_i <= Len(flat_nodes)
    /\ LET data == flat_nodes[bt_i]
           node == Len(nodes) + 1
       IN /\ nodes' = Append(nodes, FlatNode(data))
          /\ node_map' = MapPut(node_map, <<data.level, data.number>>, node)
          /\ all_nodes' = Append(all_nodes, [node |-> node,
                                             parent_number |-> data.parent_number])
    /\ bt_i' = bt_i + 1
    /\ UNCHANGED <<entry, treeIdle, flat_nodes, root_nodes, pc>>

\* line 248: the first pass is over, root_nodes = []
FirstPassEnd ==
    /\ entry = "build_tree" /\ pc = "pass1"
    /\ bt_i > Len(flat_nodes)
    /\ root_nodes' = <<>>
    /\ bt_i' = 1
    /\ pc' = "pass2"
    /\ UNCHANGED <<entry, treeIdle, flat_nodes, nodes, node_map, all_nodes>>

\* lines 249-260: one iteration of the second pass
LinkNode ==
    /\ entry = "build_tree" /\ pc = "pass2"
    /\ bt_i <= Len(all_nodes)
    /\ LET node == all_nodes[bt_i].node
           parent_number == all_nodes[bt_i].parent_number
       IN IF nodes[node].level = 1 \/ parent_number = NoneVal
          THEN /\ root_nodes' = Append(root_nodes, node)
               /\ nodes' = nodes
          ELSE LET parent_key == <<nodes[node].level - 1, parent_number[1]>>
               IN IF parent_key \in DOMAIN node_map
                  THEN /\ nodes' = [nodes EXCEPT ![node_map[parent_key]].children =
                                                     Append(@, node)]
                       /\ root_nodes' = root_nodes
                  ELSE /\ root_nodes' = Append(root_nodes, node)
                       /\ nodes' = nodes
    /\ bt_i' = bt_i + 1
    /\ UNCHANGED <<entry, treeIdle, flat_nodes, node_map, all_nodes, pc>>

\* line 262: return root_nodes
BuildTreeReturn ==
    /\ entry = "build_tree" /\ pc = "pass2"
    /\ bt_i > Len(all_nodes)
    /\ pc' = "done"
    /\ UNCHANGED <<entry, treeIdle, flat_nodes, nodes, root_nodes, node_map,
                   all_nodes, bt_i>>

NextTree ==
    \/ BuildTreeStart
    \/ CreateNode
    \/ FirstPassEnd
    \/ LinkNode
    \/ BuildTreeReturn

\* a call of _build_tree(flat_nodes)
InitTree ==
    /\ entry = "build_tree"
    /\ line_infos = <<>>
    /\ max_depth = 0
    /\ parallel = FALSE
    /\ max_workers = 1
    /\ hierarchy_types = <<>>
    /\ InitRunLocals
    /\ NoComparison
    /\ flat_nodes \in FlatLists
    /\ node_map = <<>>
    /\ all_nodes = <<>>
    /\ bt_i = 0
    /\ max_retries = 0
    /\ attempt = 0
    /\ code = 0
    /\ cleaned = <<>>
    /\ clean_events = <<>>
    /\ returned = <<>>
    /\ chapters_raw = <<>>
    /\ extracted_chapters = <<>>

SpecTree == InitTree /\ [][NextTree]_vars

\* ------------------------------------------- clean_text (text_cleaner.py)
\* One LLM request: the code version asked for, or the client's exception.
\* One execution: execute_cleaning_code runs version `code` and
\* verify_cleaned_text judges the text, or either raises.
RequestEvent(ok) == [ev |-> "request", attempt |-> attempt, code |-> code + 1,
                     out |-> IF ok THEN "code" ELSE "LLMError"]
ExecuteEvent(out) == [ev |-> "execute", attempt |-> attempt, code |-> code,
                      out |-> out]

\* the text version `code` makes of raw_text, and the verdict on it
CleanedText(valid) == [code |-> code, valid |-> valid]

\* the test that always asks for a fix
RetriesAlwaysLeft(a, n) == TRUE

\* lines 216, 234: `if attempt < max_retries - 1`
RetriesLeft(a, n) == a < n - 1

cleanIdle == <<line_infos, max_depth, parallel, max_workers, hierarchy_types,
               nodes, root_nodes, current_level, nodes_at_current_level,
               nodes_at_next_level, parents_to_process, seq_i, futures, calls,
               reported, stack, repairVars, indexVars, compareVars, flat_nodes,
               node_map, all_nodes, bt_i, chapters_raw, extracted_chapters>>

\* lines 197-204: generate_cleaning_code, then the loop is entered
CleanStart ==
    /\ entry = "clean_text" /\ pc = "start"
    /\ \E ok \in BOOLEAN :
          /\ clean_events' = Append(clean_events, RequestEvent(ok))
          /\ IF ok
             THEN /\ code' = code + 1
                  /\ pc' = "loop"
                  /\ returned' = returned
             ELSE /\ code' = code
                  /\ pc' = "raised"
                  /\ returned' = <<"raise", "LLMError">>
    /\ attempt' = 0
    /\ UNCHANGED <<entry, cleanIdle, max_retries, cleaned>>

\* lines 216-230 / 234-248: the fix request after the execution logged as ev;
\* without retries left the loop goes on, or the SyntaxError is re-raised
AskFix(ev, reraise) ==
    IF RetriesLeft(attempt, max_retries)
    THEN \E ok \in BOOLEAN :
           /\ clean_events' = clean_events \o <<ev, RequestEvent(ok)>>
           /\ IF ok
              THEN /\ code' = code + 1
                   /\ attempt' = attempt + 1
                   /\ pc' = "loop"
                   /\ returned' = returned
              ELSE /\ code' = code
                   /\ attempt' = attempt
                   /\ pc' = "raised"
                   /\ returned' = <<"raise", "LLMError">>
    ELSE /\ clean_events' = Append(clean_events, ev)
         /\ code' = code
         /\ IF reraise
            THEN /\ attempt' = attempt
                 /\ pc' = "raised"
                 /\ returned' = <<"raise", "SyntaxError">>
            ELSE /\ attempt' = attempt + 1
                 /\ pc' = "loop"
                 /\ returned' = returned

\* lines 205-213: the text passes verify_cleaned_text and is returned
ExecuteValid ==
    /\ entry = "clean_text" /\ pc = "loop" /\ attempt < max_retries
    /\ cleaned' = Some(CleanedText(TRUE))
    /\ clean_events' = Append(clean_events, ExecuteEvent("valid"))
    /\ returned' = <<"return", CleanedText(TRUE)>>
    /\ pc' = "done"
    /\ UNCHANGED <<entry, cleanIdle, max_retries, attempt, code>>

\* lines 205-230: the text fails verify_cleaned_text
ExecuteInvalid ==
    /\ entry = "clean_text" /\ pc = "loop" /\ attempt < max_retries
    /\ cleaned' = Some(CleanedText(FALSE))
    /\ AskFix(ExecuteEvent("invalid"), FALSE)
    /\ UNCHANGED <<entry, cleanIdle, max_retries>>

\* lines 232-248: exec raises SyntaxError, cleaned is not assigned
ExecuteSyntaxError ==
    /\ entry = "clean_text" /\ pc = "loop" /\ attempt < max_retries
    /\ cleaned' = cleaned
    /\ AskFix(ExecuteEvent("SyntaxError"), TRUE)
    /\ UNCHANGED <<entry, cleanIdle, max_retries>>

\* lines 205-210: the generated code, or the missing clean function, or
\* verify_cleaned_text raises another exception, which no handler catches
ExecuteRaises ==
    /\ entry = "clean_text" /\ pc = "loop" /\ attempt < max_retries
    /\ clean_events' = Append(clean_events, ExecuteEvent("Exception"))
    /\ returned' = <<"raise", "Exception">>
    /\ pc' = "raised"
    /\ UNCHANGED <<entry, cleanIdle, max_retries, attempt, code, cleaned>>

\* lines 250-251: range(max_retries) is exhausted, `return cleaned`; the
\* name is unbound when no execution has assigned it
CleanLoopExit ==
    /\ entry = "clean_text" /\ pc = "loop" /\ attempt >= max_retries
    /\ IF cleaned = NoneVal
       THEN pc' = "raised" /\ returned' = <<"raise", "UnboundLocalError">>
       ELSE pc' = "done" /\ returned' = <<"return", cleaned[1]>>
    /\ UNCHANGED <<entry, cleanIdle, max_retries, attempt, code, cleaned,
                   clean_events>>

NextClean ==
    \/ CleanStart
    \/ ExecuteValid
    \/ ExecuteInvalid
    \/ ExecuteSyntaxError
    \/ ExecuteRaises
    \/ CleanLoopExit

\* a call of clean_text(raw_text, jurisdiction, max_retries)
InitClean ==
    /\ entry = "clean_text"
    /\ line_infos = <<>>
    /\ max_depth = 0
    /\ parallel = FALSE
    /\ max_workers = 1
    /\ hierarchy_types = <<>>
    /\ InitRunLocals
    /\ NoComparison
    /\ flat_nodes = <<>>
    /\ node_map = <<>>
    /\ all_nodes = <<>>
    /\ bt_i = 0
    /\ max_retries \in 0..MaxRetries
    /\ attempt = 0
    /\ code = 0
    /\ cleaned = NoneVal
    /\ clean_events = <<>>
    /\ returned = <<>>
    /\ chapters_raw = <<>>
    /\ extracted_chapters = <<>>

SpecClean == InitClean /\ [][NextClean]_vars

\* ------------------------------- extract_document (document_extractor.py)
\* the chapters the LLM may list: in any order, start lines may repeat
Chapters ==
    [number : {"I", "II"}, title : {"PRELIMINARY"}, start_line : {1, 4},
     end_line : {6}]

ChapterLists == UNION { [1..n -> Chapters] : n \in 0..MaxChapters }

\* lines 176-182: what extract_single_chapter returns for a chapter; the
\* sections found in it are left out
ExtractedChapter(ch) ==
    [number |-> ch.number, title |-> ch.title, start_line |-> ch.start_line,
     end_line |-> ch.end_line]

\* list.sort(key=lambda c: c.start_line): equal keys keep their order
RECURSIVE SortByStartLine(_)
SortByStartLine(list) ==
    IF list = <<>> THEN <<>>
    ELSE LET last == list[Len(list)]
             front == SortByStartLine(SubSeq(list, 1, Len(list) - 1))
             keep == Cardinality({k \in 1..Len(front) :
                                     front[k].start_line <= last.start_line})
         IN  SubSeq(front, 1, keep) \o <<last>> \o SubSeq(front, keep + 1, Len(front))

docIdle == <<entry, line_infos, max_depth, parallel, max_workers, hierarchy_types,
             nodes, root_nodes, current_level, nodes_at_current_level,
             nodes_at_next_level, parents_to_process, calls, reported, stack,
             repairVars, indexVars, compareVars, flat_nodes, node_map, all_nodes,
             bt_i, max_retries, attempt, code, cleaned, clean_events, returned>>

\* lines 86-103, 185-201: the structure, the metadata and the chapter list
\* are asked of the LLM; then the mode is chosen
DocStart ==
    /\ entry = "document" /\ pc = "start"
    /\ extracted_chapters' = <<>>
    /\ \/ /\ pc' = "raised"
          /\ UNCHANGED <<chapters_raw, futures, seq_i>>
       \/ /\ chapters_raw' \in ChapterLists
          /\ IF parallel
             THEN /\ futures' = [k \in 1..Len(chapters_raw') |->
                                   [st |-> "pending", out |-> Ok(<<>>)]]
                  /\ seq_i' = 0
                  /\ pc' = "par"
             ELSE /\ futures' = <<>>
                  /\ seq_i' = 1
                  /\ pc' = "seq"
    /\ UNCHANGED docIdle

\* lines 198-201: one element of the list comprehension; extract_sections
\* may raise out of extract_single_chapter
DocSeqChapter ==
    /\ entry = "document" /\ pc = "seq"
    /\ seq_i <= Len(chapters_raw)
    /\ \/ /\ extracted_chapters' =
                Append(extracted_chapters, ExtractedChapter(chapters_raw[seq_i]))
          /\ seq_i' = seq_i + 1
          /\ pc' = "seq"
       \/ /\ pc' = "raised"
          /\ UNCHANGED <<extracted_chapters, seq_i>>
    /\ UNCHANGED <<docIdle, chapters_raw, futures>>

\* lines 203-209: the comprehension is complete, the Document is returned
DocSeqEnd ==
    /\ entry = "document" /\ pc = "seq"
    /\ seq_i > Len(chapters_raw)
    /\ pc' = "done"
    /\ UNCHANGED <<docIdle, chapters_raw, futures, seq_i, extracted_chapters>>

\* lines 189-192: extract_single_chapter returns or raises in its worker
DocWorkerFinish(k) ==
    /\ entry = "document" /\ pc \in {"par", "drain"}
    /\ InWorker(k)
    /\ \E out \in {Ok(<<>>), Raised} :
          futures' = [futures EXCEPT ![k] = [st |-> "finished", out |-> out]]
    /\ UNCHANGED <<docIdle, chapters_raw, seq_i, extracted_chapters, pc>>

\* lines 193-194: as_completed yields a finished future; future.result()
\* re-raises the worker's exception
DocConsume(k) ==
    /\ entry = "document" /\ pc = "par"
    /\ k \in 1..Len(futures) /\ futures[k].st = "finished"
    /\ futures' = [futures EXCEPT ![k].st = "consumed"]
    /\ IF futures[k].out.ok
       THEN /\ extracted_chapters' =
                  Append(extracted_chapters, ExtractedChapter(chapters_raw[k]))
            /\ pc' = "par"
       ELSE /\ extracted_chapters' = extracted_chapters
            /\ pc' = "drain"
    /\ UNCHANGED <<docIdle, chapters_raw, seq_i>>

\* lines 195-196, 203-209: the with block is left, the list is sorted, the
\* Document is returned
DocParEnd ==
    /\ entry = "document" /\ pc = "par"
    /\ \A k \in 1..Len(futures) : futures[k].st = "consumed"
    /\ extracted_chapters' = SortByStartLine(extracted_chapters)
    /\ pc' = "done"
    /\ UNCHANGED <<docIdle, chapters_raw, futures, seq_i>>

\* the with block is left on the exception once the workers are joined
DocDrainEnd ==
    /\ entry = "document" /\ pc = "drain"
    /\ Pending = {}
    /\ pc' = "raised"
    /\ UNCHANGED <<docIdle, chapters_raw, futures, seq_i, extracted_chapters>>

NextDoc ==
    \/ DocStart
    \/ DocSeqChapter
    \/ DocSeqEnd
    \/ \E k \in 1..MaxChapters : DocWorkerFinish(k)
    \/ \E k \in 1..MaxChapters : DocConsume(k)
    \/ DocParEnd
    \/ DocDrainEnd

\* a call of extract_document(text, parallel=..., max_workers=...)
InitDoc ==
    /\ entry = "document"
    /\ line_infos = <<>>
    /\ max_depth = 0
    /\ parallel \in BOOLEAN
    /\ max_workers \in (IF parallel THEN 1..MaxWorkers ELSE {MaxWorkers})
    /\ hierarchy_types = <<>>
    /\ InitLocals

SpecDoc == InitDoc /\ [][NextDoc]_vars

Next == NextBfs

\* the three builders
SpecBuilders == InitBuilders /\ [][NextBfs \/ NextRec]_vars

Spec == Init /\ [][Next]_vars

\* ================================================================ claims
Bfs == entry = "level_by_level"
NodeIds == 1..Len(nodes)
SameRange(a, b) == a.start_line = b.start_line /\ a.end_line = b.end_line

\* every logged answer lists its segments in ascending start_line order
ResponsesAscending ==
    \A c \in 1..Len(calls) : \A k \in 1..(Len(calls[c].segments) - 1) :
        calls[c].segments[k].start_line <= calls[c].segments[k + 1].start_line

\* every call so far was answered, with echoes of the queried range only
EchoOracle ==
    \A c \in 1..Len(calls) :
        /\ calls[c].ok /\ calls[c].segments # <<>>
        /\ \A k \in 1..Len(calls[c].segments) : SameRange(calls[c].segments[k], calls[c])

\* C1: in the tree extract_level_by_level returns, adjacent children of every
\* node do not overlap: children[i].end_line < children[i+1].start_line,
\* whatever the oracle answered.
C1_NonOverlap ==
    (Bfs /\ pc = "done") =>
        \A p \in NodeIds : \A k \in 1..(Len(nodes[p].children) - 1) :
            nodes[nodes[p].children[k]].end_line
                < nodes[nodes[p].children[k + 1]].start_line

\* C2: in the tree extract_level_by_level returns, every child's range lies
\* inside its parent's range and every root's range inside the document's.
C2_Containment ==
    (Bfs /\ pc = "done") =>
        /\ \A p \in NodeIds : \A c \in Range(nodes[p].children) :
              /\ nodes[p].start_line <= nodes[c].start_line
              /\ nodes[c].end_line <= nodes[p].end_line
        /\ \A r \in Range(root_nodes) :
              /\ line_infos[1].line_num <= nodes[r].start_line
              /\ nodes[r].end_line <= line_infos[Len(line_infos)].line_num

\* C3: in the tree any of the three builders returns, a node has content
\* (content is not None) exactly when it has no children.
C3_LeafContentDuality ==
    (entry \in {"level_by_level", "dynamic", "fixed"} /\ pc = "done") =>
        \A i \in NodeIds : (nodes[i].content # NoneVal) <=> (nodes[i].children = <<>>)

\* a returned breadth-first tree with an inner node and a filled leaf under it
C3_Witness ==
    /\ Bfs /\ pc = "done"
    /\ \E p \in NodeIds : \E c \in Range(nodes[p].children) :
          /\ nodes[p].content = NoneVal
          /\ nodes[c].children = <<>>
          /\ nodes[c].content = Some(get_content(line_infos, nodes[c].start_line,
                                                 nodes[c].end_line))

\* C4: in extract_level_by_level no child has its parent's own range; and as
\* long as the oracle only echoes the queried range, every node stays without
\* children, no level beyond the first is created, no node is queried twice
\* (one call for the document, at most one per root) and the run can always
\* take its next step until it has returned, so it ends.
C4_SelfReferenceGuard ==
    Bfs =>
        /\ \A p \in NodeIds : \A c \in Range(nodes[p].children) :
              ~SameRange(nodes[c], nodes[p])
        /\ EchoOracle =>
              /\ \A i \in NodeIds : nodes[i].children = <<>> /\ nodes[i].level = 1
              /\ Len(calls) <= 1 + Len(root_nodes)
              /\ pc # "raised"
              /\ pc # "done" => ENABLED Next

\* the echoing oracle in parallel mode: two roots echo the document, both are
\* queried, both echoes are dropped, and the run has returned two leaves
C4_Witness ==
    /\ Bfs /\ pc = "done" /\ parallel /\ EchoOracle
    /\ Len(root_nodes) = 2 /\ Len(calls) = 3
    /\ \A i \in NodeIds : nodes[i].children = <<>> /\ nodes[i].content # NoneVal

\* C5: for every max_depth = d >= 0 the tree extract_level_by_level returns
\* holds no node of level > d.
C5_DepthBound ==
    (Bfs /\ pc = "done") => \A i \in NodeIds : nodes[i].level <= max_depth

\* C6: when the discover_children call for a node raises,
\* extract_level_by_level does not raise.
C6_NoRaise ==
    ~(/\ Bfs /\ pc = "raised"
      /\ \E c \in 1..Len(calls) : ~calls[c].ok /\ calls[c].node # 0)

\* C7: in parallel mode, whatever the completion order, the children of every
\* node are in ascending start_line order, provided each answer was.
C7_ChildrenAscending ==
    (Bfs /\ parallel /\ ResponsesAscending) =>
        \A p \in NodeIds : \A k \in 1..(Len(nodes[p].children) - 1) :
            nodes[nodes[p].children[k]].start_line
                <= nodes[nodes[p].children[k + 1]].start_line

\* a level expanded by the pool in which the first parent's worker completed
\* last, and a parent that got two children of different start lines
C7_Witness ==
    /\ Bfs /\ parallel /\ pc = "levelend" /\ Len(futures) > 1 /\ ResponsesAscending
    /\ \E p \in Range(parents_to_process) :
          /\ Len(nodes[p].children) = 2
          /\ nodes[nodes[p].children[1]].start_line
                < nodes[nodes[p].children[2]].start_line
    /\ calls[Len(calls)].node = parents_to_process[1]

RECURSIVE ChildrenOfAll(_, _)
ChildrenOfAll(store, ids) ==
    IF ids = <<>> THEN <<>>
    ELSE store[Head(ids)].children \o ChildrenOfAll(store, Tail(ids))

\* the HierarchyNode objects a list of positions stands for
NodesOf(ids) == [k \in 1..Len(ids) |-> nodes[ids[k]]]

\* every answered call listed segments inside the queried range, each ending
\* before the next starts, none of them the queried range itself
ResponsesWellFormed ==
    \A c \in 1..Len(calls) :
        LET segs == calls[c].segments
        IN /\ calls[c].ok
           /\ \A k \in 1..Len(segs) :
                 /\ calls[c].start_line <= segs[k].start_line
                 /\ segs[k].start_line <= segs[k].end_line
                 /\ segs[k].end_line <= calls[c].end_line
                 /\ ~SameRange(segs[k], calls[c])
           /\ \A k \in 1..(Len(segs) - 1) : segs[k].end_line < segs[k + 1].start_line

\* C8: in parallel mode the list of the nodes of the next level, once the
\* level is complete, is the list sequential mode builds: the children of the
\* current level's nodes, parent by parent in the order of the current level
\* (stated for runs in which every oracle answer was well formed, so that the
\* order of the list is the only thing at stake).
C8_LevelOrder ==
    (Bfs /\ parallel /\ pc = "levelend" /\ ResponsesWellFormed) =>
        NodesOf(nodes_at_next_level)
            = NodesOf(ChildrenOfAll(nodes, nodes_at_current_level))

\* C9: a second run of fill_missing_titles leaves the tree as the first run
\* left it.
C9_Idempotent ==
    (entry = "repair" /\ pc = "done") => nodes = nodes_after_first

\* C10: fill_missing_titles changes nothing but titles, changes no title that
\* was not None, and issues no find_missing_title call for such a node.
C10_PureEnrichment ==
    entry = "repair" =>
        /\ Len(nodes) = Len(nodes_before)
        /\ \A i \in NodeIds :
              /\ [nodes[i] EXCEPT !.title = NoneVal]
                    = [nodes_before[i] EXCEPT !.title = NoneVal]
              /\ nodes_before[i].title # NoneVal =>
                    /\ nodes[i].title = nodes_before[i].title
                    /\ \A q \in 1..Len(title_queries) : title_queries[q].node # i

\* both runs are over: an inner node kept its title, a node below it got one
C10_Witness ==
    /\ entry = "repair" /\ pc = "done"
    /\ \E p \in NodeIds : \E c \in Range(nodes[p].children) :
          /\ nodes_before[p].title # NoneVal
          /\ nodes_before[c].title = NoneVal
          /\ nodes[c].title = Some("Heading")

\* C11: extract_level_by_level called with zero lines returns the empty list
\* without a discover_children call and without raising; and when the
\* discovery over the whole document answers with zero segments, the run has
\* returned the empty list, with no node built and no further call.
C11_EmptyInput ==
    Bfs =>
        /\ line_infos = <<>> =>
              /\ calls = <<>> /\ pc \in {"start", "done"}
              /\ root_nodes = <<>> /\ nodes = <<>>
        /\ (calls # <<>> /\ calls[1].ok /\ calls[1].segments = <<>>) =>
              /\ pc = "done" /\ Len(calls) = 1
              /\ root_nodes = <<>> /\ nodes = <<>>

\* the call with zero lines has returned the empty list, no call was made
C11_Witness ==
    /\ Bfs /\ line_infos = <<>> /\ pc = "done"
    /\ calls = <<>> /\ root_nodes = <<>>

\* the texts of the lines of an index
Texts(lis) == [k \in 1..Len(lis) |-> lis[k].text]

\* C12: the lines extract_with_line_info builds are numbered 1, 2, 3, ...
\* (the i-th has line_num i, the counter is the number of lines built), and
\* no blank line and no page-marker line is among them, so none of these
\* consumed a number.
C12_LineNumbering ==
    entry = "line_index" =>
        /\ cur_line_num = Len(line_infos)
        /\ \A i \in 1..Len(line_infos) :
              /\ line_infos[i].line_num = i
              /\ ~Blank(line_infos[i].text)
              /\ re_match(line_infos[i].text) = NoneVal
        /\ Len(line_infos) <= Len(raw_text)

\* the index of a text of four lines is built: a blank line and a page marker
\* lie between the two lines that survive, and the second one got line_num 2
C12_Witness ==
    /\ entry = "line_index" /\ pc = "done"
    /\ Len(raw_text) = 4
    /\ Blank(raw_text[2]) /\ re_match(raw_text[3]) # NoneVal
    /\ Len(line_infos) = 2
    /\ line_infos[1].text = raw_text[1]
    /\ line_infos[2].text = raw_text[4] /\ line_infos[2].line_num = 2

\* the content of the line is exactly [PAGE:<positive integer>]
ExactMarker(line) ==
    /\ Len(line) >= 3 /\ line[1] = "[PAGE:" /\ line[Len(line)] = "]"
    /\ \A k \in 2..(Len(line) - 1) : line[k] \in Digits
    /\ IntOf(SubSeq(line, 2, Len(line) - 1)) > 0

\* C13: a line of the input is consumed as a page marker if and only if its
\* content is exactly [PAGE:<positive integer>]: the lines of the index
\* extract_with_line_info returns are, in order, the lines of the input that
\* are neither blank nor exactly such a marker.
C13_MarkerSyntax ==
    (entry = "line_index" /\ pc = "done") =>
        Texts(line_infos)
            = SelectSeq(raw_text, LAMBDA line : ~Blank(line) /\ ~ExactMarker(line))

\* C14: get_lines_slice right-aligns every line number to the width of the
\* largest line number of the whole document, whatever the slice: the blanks
\* before a number make up the difference between the two widths.
C14_StableSliceFormat ==
    (entry = "slice" /\ last_call.fn = "get_lines_slice") =>
        \A k \in 1..Len(last_call.value) :
            last_call.value[k].pad
                = StrLen(line_infos[Len(line_infos)].line_num)
                  - StrLen(last_call.value[k].num)

\* C15: when the discovery over the whole document answered with k >= 1
\* segments, each ending before the next starts, and every later call answered
\* with zero segments, extract_level_by_level returns exactly k nodes, the
\* j-th built from the j-th segment, each of level 1, without children and
\* with content = get_content over its own [start_line, end_line].
C15_TwoLevelScenario ==
    (/\ Bfs /\ pc = "done" /\ calls # <<>>
     /\ calls[1].ok /\ calls[1].segments # <<>>
     /\ \A j \in 1..(Len(calls[1].segments) - 1) :
           calls[1].segments[j].end_line < calls[1].segments[j + 1].start_line
     /\ \A c \in 2..Len(calls) : calls[c].ok /\ calls[c].segments = <<>>)
        => /\ root_nodes = [j \in 1..Len(calls[1].segments) |-> j]
           /\ Len(nodes) = Len(calls[1].segments)
           /\ \A j \in 1..Len(nodes) :
                 LET seg == calls[1].segments[j]
                 IN  nodes[j] =
                        [level |-> 1, type |-> seg.type, number |-> seg.number,
                         title |-> seg.title,
                         content |-> Some(get_content(line_infos, seg.start_line,
                                                      seg.end_line)),
                         start_line |-> seg.start_line, end_line |-> seg.end_line,
                         page |-> get_page_for_line(line_infos, seg.start_line),
                         children |-> <<>>]

\* the scenario over six lines: chapters (1,3) and (4,6), each queried once
\* and answered with nothing, returned as two leaves holding three lines each
C15_Witness ==
    /\ Bfs /\ pc = "done" /\ Len(calls) = 3
    /\ \A c \in 2..3 : calls[c].llm /\ calls[c].ok /\ calls[c].segments = <<>>
    /\ Len(root_nodes) = 2 /\ Len(nodes) = 2
    /\ nodes[1].start_line = 1 /\ nodes[1].end_line = 3
    /\ nodes[2].start_line = 4 /\ nodes[2].end_line = 6
    /\ nodes[1].content = Some(<< <<"line", 1>>, <<"line", 2>>, <<"line", 3>> >>)
    /\ nodes[2].content = Some(<< <<"line", 4>>, <<"line", 5>>, <<"line", 6>> >>)
    /\ nodes[1].children = <<>> /\ nodes[2].children = <<>>

\* C16: when no line of the index has its line_num in [start_line, end_line]
\* (start_line > end_line and ranges past the last line included),
\* get_lines_slice and get_content return the empty string.
C16_EmptyRange ==
    (/\ entry = "slice" /\ last_call.fn \in {"get_lines_slice", "get_content"}
     /\ \A i \in 1..Len(line_infos) :
           ~(last_call.start_line <= line_infos[i].line_num
             /\ line_infos[i].line_num <= last_call.end_line))
        => last_call.value = <<>>

\* get_lines_slice was called on a document with lines, for a range that
\* starts after the last line, and returned the empty string
C16_Witness ==
    /\ entry = "slice" /\ last_call.fn = "get_lines_slice"
    /\ line_infos # <<>>
    /\ last_call.start_line > Len(line_infos)
    /\ last_call.start_line <= last_call.end_line
    /\ last_call.value = <<>>

\* the range spans at least 3 lines
Eligible(i) == nodes[i].end_line - nodes[i].start_line >= 2

\* the segment a node was built from
SegmentOf(node) ==
    Segment(node.type, node.number, node.title, node.start_line, node.end_line)

ChildSegments(i) ==
    [k \in 1..Len(nodes[i].children) |-> SegmentOf(nodes[nodes[i].children[k]])]

\* the call returned and the children it named are the children of its node
Attached(c) ==
    /\ calls[c].ok
    /\ ChildSegments(calls[c].node)
          = SkipSameRange(nodes[calls[c].node], calls[c].segments)

\* every node of level L spanning 3 lines or more was queried, the call has
\* returned and its children are attached
LevelResolved(L) ==
    \A i \in NodeIds :
        (nodes[i].level = L /\ Eligible(i)) =>
            \E c \in 1..Len(calls) : calls[c].node = i /\ Attached(c)

\* C17: in both modes of extract_level_by_level, a discover_children call for
\* a node of level k+1, returned or under way in the loop or in a worker, is
\* only found once every call for the nodes of level k has returned and its
\* children are attached; the calls of a run are made in the order of the
\* levels.
C17_LevelSynchronous ==
    Bfs =>
        /\ \A c \in 1..Len(calls) :
              calls[c].node # 0 =>
                 /\ calls[c].level = nodes[calls[c].node].level
                 /\ LevelResolved(calls[c].level - 1)
        /\ pc \in {"seq", "par", "drain"} =>
              \A k \in 1..Len(parents_to_process) :
                 /\ nodes[parents_to_process[k]].level = current_level
                 /\ LevelResolved(current_level - 1)
        /\ \A c \in 1..(Len(calls) - 1) : calls[c].level <= calls[c + 1].level

\* the pool works on level 2: the call for one node of level 2 has returned,
\* the call for another is under way in a worker, and the root is resolved
C17_Witness ==
    /\ Bfs /\ parallel /\ pc = "par" /\ current_level = 2
    /\ \E k \in 1..Len(futures) : futures[k].st = "finished"
    /\ \E k \in 1..Len(futures) : InWorker(k)
    /\ LevelResolved(1)
    /\ \E i \in NodeIds : nodes[i].level = 1 /\ Len(nodes[i].children) = 2

\* the calls made for node i
CallsOf(i) == {c \in 1..Len(calls) : calls[c].node = i}

\* the places of node j in the children lists of the tree
Owners(j) ==
    {ik \in NodeIds \X NodeIds :
        ik[2] <= Len(nodes[ik[1]].children) /\ nodes[ik[1]].children[ik[2]] = j}

\* C18: in a run of extract_level_by_level, in either mode, no node is queried
\* twice; when the run returns, exactly the nodes of level < max_depth that
\* span at least 3 lines were queried, once each; the children of a node are
\* those its own call named (none if it was not queried), and every node
\* that is not a root is in the children of exactly one node, once.
C18_ExactlyOnceSingleOwner ==
    Bfs =>
        /\ \A i \in NodeIds : Cardinality(CallsOf(i)) <= 1
        /\ pc = "done" =>
              \A i \in NodeIds :
                 Cardinality(CallsOf(i))
                    = IF nodes[i].level < max_depth /\ Eligible(i) THEN 1 ELSE 0
        /\ \A i \in NodeIds :
              nodes[i].children # <<>> => \E c \in CallsOf(i) : Attached(c)
        /\ pc \in {"levelend", "loop", "done"} =>
              \A c \in 1..Len(calls) : calls[c].node # 0 => Attached(c)
        /\ \A j \in NodeIds :
              Cardinality(Owners(j)) = IF j \in Range(root_nodes) THEN 0 ELSE 1

\* a parallel run has returned: two roots were queried once each, and each
\* has the one child its own call named
C18_Witness ==
    /\ Bfs /\ parallel /\ pc = "done" /\ Len(root_nodes) = 2 /\ Len(calls) = 3
    /\ \A r \in Range(root_nodes) :
          /\ Cardinality(CallsOf(r)) = 1
          /\ Len(nodes[r].children) = 1
          /\ \A c \in CallsOf(r) : Attached(c)

\* C19: in extract_level_by_level a node whose range spans 2 lines or fewer
\* (end_line - start_line < 2) is never a parent to process and never the
\* subject of a discover_children call, it never has children, and in the
\* returned tree it is a leaf with its content.
C19_SmallRangeFloor ==
    Bfs =>
        /\ \A c \in 1..Len(calls) :
              calls[c].node # 0 => calls[c].end_line - calls[c].start_line >= 2
        /\ \A i \in NodeIds :
              nodes[i].end_line - nodes[i].start_line < 2 =>
                 /\ CallsOf(i) = {}
                 /\ pc \in {"seq", "par", "drain"} => i \notin Range(parents_to_process)
                 /\ nodes[i].children = <<>>
                 /\ pc = "done" => nodes[i].content # NoneVal

\* a returned tree with a node of two lines on a level below max_depth: it
\* was not queried and is a leaf holding its two lines
C19_Witness ==
    /\ Bfs /\ pc = "done"
    /\ \E i \in NodeIds :
          /\ nodes[i].end_line - nodes[i].start_line = 1
          /\ nodes[i].level < max_depth
          /\ CallsOf(i) = {} /\ nodes[i].children = <<>>
          /\ nodes[i].content = Some(<< <<"line", nodes[i].start_line>>,
                                        <<"line", nodes[i].end_line>> >>)

\* C20: until extract_level_by_level has left its level loop, and so at every
\* on_level_complete callback, every node of the tree has content = None;
\* the run returns only with the loop condition false, and then every
\* childless node holds get_content over its range, written in that one step.
C20_ContentAfterLevels ==
    Bfs =>
        /\ pc # "done" => \A i \in NodeIds : nodes[i].content = NoneVal
        /\ (pc = "done" /\ nodes # <<>>) =>
              /\ ~(current_level < max_depth /\ nodes_at_current_level # <<>>)
              /\ \A i \in NodeIds :
                    nodes[i].children = <<>> =>
                       nodes[i].content = Some(get_content(line_infos,
                                                           nodes[i].start_line,
                                                           nodes[i].end_line))

\* two levels were reported while no node had content; the run has returned
\* and a node of level 2 holds its content
C20_Witness ==
    /\ Bfs /\ pc = "done" /\ Len(reported) = 2
    /\ \E i \in NodeIds :
          /\ nodes[i].level = 2
          /\ nodes[i].content # NoneVal /\ nodes[i].content # Some(<<>>)

\* ------------------------------------------------------------------ C21
\* the positions of the nodes the store holds at level L
NodesAtLevel(L) == {i \in NodeIds : nodes[i].level = L}

\* C21: on_level_complete is invoked once for each level that holds a node,
\* with the level numbers 1, 2, 3, ... in this order; each invocation comes
\* when all the nodes of its level exist (no node of the level is created
\* later), carries exactly these nodes, each once, and comes before any node
\* of the level is queried for the next one; a run that returns has
\* reported every level that holds a node.
C21_LevelReporting ==
    Bfs =>
      /\ \A k \in 1..Len(reported) :
            /\ reported[k].level = k
            /\ reported[k].nodes # <<>>
            /\ Range(reported[k].nodes) = NodesAtLevel(k)
            /\ Len(reported[k].nodes) = Cardinality(NodesAtLevel(k))
      /\ \A c \in 1..Len(calls) :
            calls[c].node # 0 => nodes[calls[c].node].level <= Len(reported)
      /\ \A i \in NodeIds :
            nodes[i].level <= Len(reported) + 1
      /\ pc = "done" => \A i \in NodeIds : nodes[i].level <= Len(reported)

\* a parallel run returns after three reports
C21_Witness ==
    /\ Bfs /\ pc = "done" /\ parallel /\ futures # <<>>
    /\ Len(reported) = 3
    /\ \E c \in 1..Len(calls) : calls[c].level = 2

\* ------------------------------------------------------------------ C22
\* the oracle call that future k of the level ran
RanToCompletion(k) ==
    /\ futures[k].st \in {"finished", "consumed"}
    /\ \E c \in 1..Len(calls) :
          /\ calls[c].node = parents_to_process[k]
          /\ calls[c].ok = futures[k].out.ok
          /\ calls[c].segments = futures[k].out.segments

\* C22: in parallel mode, when an oracle call of a level has raised,
\* extract_level_by_level exits only after every call submitted for the
\* level has run to completion, and it exits by raising: no run in which a
\* call raised returns a tree.
C22_DrainThenFail ==
    (Bfs /\ parallel) =>
      /\ (pc = "raised" /\ futures # <<>>) =>
            /\ \A k \in 1..Len(futures) : RanToCompletion(k)
            /\ \E k \in 1..Len(futures) :
                  futures[k].st = "consumed" /\ ~futures[k].out.ok
      /\ (\E c \in 1..Len(calls) : ~calls[c].ok) => pc # "done"
      /\ pc = "drain" =>
            \E k \in 1..Len(futures) : futures[k].st = "consumed" /\ ~futures[k].out.ok

\* the run has failed on one parent of level 1 after the call for another
\* parent has returned children that are never attached
C22_Witness ==
    /\ Bfs /\ parallel /\ pc = "raised" /\ current_level = 1
    /\ Len(futures) = 2
    /\ futures[1].st = "consumed" /\ ~futures[1].out.ok
    /\ futures[2].st = "finished" /\ futures[2].out.ok
    /\ futures[2].out.segments # <<>>
    /\ calls[Len(calls)].node = parents_to_process[2]
    /\ nodes[parents_to_process[2]].children = <<>>

\* ------------------------------------------------------------------ C23
\* C23: in every tree extract_level_by_level, extract_hierarchy_dynamic or
\* extract_hierarchy_fixed (entered with level=0) returns, every root node
\* has level 1 and every child has the level of its parent plus one; the
\* children of a node have this level from the moment they are attached.
C23_LevelNumbering ==
    /\ \A i \in NodeIds : \A k \in 1..Len(nodes[i].children) :
          nodes[nodes[i].children[k]].level = nodes[i].level + 1
    /\ pc = "done" =>
          \A k \in 1..Len(root_nodes) : nodes[root_nodes[k]].level = 1

\* the fixed builder has returned a root with a child and a grandchild
C23_Witness ==
    /\ entry = "fixed" /\ pc = "done"
    /\ \E k \in 1..Len(root_nodes) :
          LET r == nodes[root_nodes[k]]
          IN /\ r.level = 1 /\ r.children # <<>>
             /\ nodes[r.children[1]].level = 2
             /\ nodes[r.children[1]].children # <<>>
             /\ nodes[nodes[r.children[1]].children[1]].level = 3

\* ------------------------------------------------------------------ C24
\* the oracle is queried at depth k with hierarchy_types[k] only, and no
\* activation, call or node goes below the last type
FixedWithinTypes ==
    /\ \A c \in 1..Len(calls) :
          /\ calls[c].fn = "extract_level"
          /\ calls[c].level < Len(hierarchy_types)
          /\ calls[c].element_type = hierarchy_types[calls[c].level + 1]
    /\ \A k \in 1..Len(stack) : stack[k].level = k - 1
    /\ Len(stack) <= Len(hierarchy_types) + 1
    /\ \A i \in NodeIds : nodes[i].level \in 1..Len(hierarchy_types)

\* C24: for any oracle behaviour and any hierarchy_types of length n,
\* extract_hierarchy_fixed terminates (it returns, or the oracle's exception
\* leaves it), it queries the oracle at depth k only with the element type
\* hierarchy_types[k], and its tree holds no node at a level above n.
C24_FixedTerminates ==
    /\ []FixedWithinTypes
    /\ <>(pc \in {"done", "raised"})

\* a returned tree of two types whose level-2 node spans three lines or
\* more and was not queried: the types ran out
C24_Witness ==
    /\ entry = "fixed" /\ pc = "done" /\ Len(hierarchy_types) = 2
    /\ \E i \in NodeIds :
          /\ nodes[i].level = 2
          /\ nodes[i].end_line - nodes[i].start_line >= 2
          /\ nodes[i].children = <<>>
    /\ \E c \in 1..Len(calls) :
          calls[c].level = 1 /\ calls[c].element_type = "section"
    /\ \A c \in 1..Len(calls) : calls[c].level < 2

\* ------------------------------------------------------------------ C25
\* the positions in the input of the lines that survive into the index
Survivors == {j \in 1..Len(raw_text) :
                ~startswith_marker(raw_text[j]) /\ ~Blank(raw_text[j])}

\* the position in the input of the i-th line of the index
InputPos(i) == CHOOSE j \in Survivors : Cardinality({x \in Survivors : x <= j}) = i

\* the lines before position j that the loop consumed as page markers
MarkersBefore(j) == {m \in 1..(j - 1) : re_match(raw_text[m]) # NoneVal}

\* the page number of the nearest marker before position j, 1 without one
NearestMarkerPage(j) ==
    IF MarkersBefore(j) = {} THEN 1
    ELSE LET m == CHOOSE x \in MarkersBefore(j) : \A y \in MarkersBefore(j) : y <= x
         IN  IntOf(re_match(raw_text[m])[1])

\* each line of the index carries the page of the nearest consumed marker
PagesFollowMarkers ==
    \A i \in 1..Len(line_infos) :
        line_infos[i].page = NearestMarkerPage(InputPos(i))

\* C25: each line of the index extract_with_line_info returns carries the
\* page number of the nearest page marker before it in the input (1 when
\* there is none), and page never decreases as line_num increases.
C25_PageTagging ==
    (entry = "line_index" /\ pc = "done") =>
        /\ PagesFollowMarkers
        /\ \A i \in 1..(Len(line_infos) - 1) :
              line_infos[i].page <= line_infos[i + 1].page

\* ------------------------------------------------------------------ C26
\* the LLM has answered every range the same way each time it was asked
OracleIsFunction ==
    \A c, d \in 1..Len(PriorCalls) :
        (/\ PriorCalls[c].llm /\ PriorCalls[d].llm
         /\ PriorCalls[c].start_line = PriorCalls[d].start_line
         /\ PriorCalls[c].end_line = PriorCalls[d].end_line)
        => (/\ PriorCalls[c].ok = PriorCalls[d].ok
            /\ PriorCalls[c].segments = PriorCalls[d].segments)

\* C26: against an LLM whose answer is a function of the queried range,
\* extract_level_by_level with parallel=True, for every max_workers and
\* every completion order of the workers, returns the tree that
\* parallel=False returned, node for node and child for child in the same
\* order; it raises only if the sequential build raised.
C26_ModesAgree ==
    (entry = "level_by_level" /\ mode_run = 2 /\ OracleIsFunction) =>
        /\ pc = "done" =>
              /\ first_result.returned
              /\ TreesOf(nodes, root_nodes) = first_result.roots
        /\ pc \in {"drain", "raised"} => ~first_result.returned

\* the parallel build has returned the tree of the sequential one although
\* the worker of the second root was consumed first
C26_Witness ==
    /\ entry = "level_by_level" /\ mode_run = 2 /\ pc = "done"
    /\ Len(futures) = 2 /\ Len(root_nodes) = 2
    /\ nodes[root_nodes[1]].children # <<>>
    /\ nodes[root_nodes[2]].children # <<>>
    /\ nodes[root_nodes[2]].children[1] < nodes[root_nodes[1]].children[1]
    /\ TreesOf(nodes, root_nodes) = first_result.roots

\* ------------------------------------------------------------------ C27
\* C27: over the same line index, with the same max_depth >= 1 and an LLM
\* whose answer is a function of the queried range, the tree
\* extract_document_hierarchy returns is the tree the sequential
\* extract_level_by_level returned.
C27_BuildersAgree ==
    (/\ entry = "dynamic" /\ mode_run = 3 /\ max_depth >= 1
     /\ OracleIsFunction /\ pc = "done" /\ first_result.returned)
    => TreesOf(nodes, root_nodes) = first_result.roots

\* ------------------------------------------------------------------ C28
\* the records with the key (level, number)
WithKey(level, number) ==
    {q \in 1..Len(flat_nodes) :
        flat_nodes[q].level = level /\ flat_nodes[q].number = number}

\* the nodes that hold node r as a child
ParentsOf(r) == {q \in NodeIds : r \in Range(nodes[q].children)}

\* C28: in the tree _build_tree returns, a record of level L > 1 with
\* parent_number p is a child of the record of level L-1 and number p that
\* most closely precedes it in the flat list, and of no other, also when
\* several records have this key; it is a root only when no record has the
\* key (L-1, p).
C28_EnclosingParent ==
    (entry = "build_tree" /\ pc = "done") =>
        \A r \in 1..Len(flat_nodes) :
            (flat_nodes[r].level > 1 /\ flat_nodes[r].parent_number # NoneVal) =>
                LET K == WithKey(flat_nodes[r].level - 1,
                                 flat_nodes[r].parent_number[1])
                    before == {q \in K : q < r}
                IN  IF K = {}
                    THEN r \in Range(root_nodes) /\ ParentsOf(r) = {}
                    ELSE /\ r \notin Range(root_nodes)
                         /\ before # {} =>
                               ParentsOf(r) =
                                 {CHOOSE q \in before : \A x \in before : x <= q}
                         /\ before = {} =>
                               \E q \in K : ParentsOf(r) = {q}

\* ------------------------------------------------------------------ C29
Executions == SelectSeq(clean_events, LAMBDA e : e.ev = "execute")
Requests == SelectSeq(clean_events, LAMBDA e : e.ev = "request")
LastExecution == Executions[Len(Executions)]

\* C29 as stated: clean_text with max_retries = n >= 1 executes generated
\* code at most n times and requests at most n code versions; it returns the
\* first text that passes verify_cleaned_text, and when none of n
\* executions passed it returns the text of the last one.  (The LLM client
\* and the generated code are taken not to raise anything but SyntaxError.)
C29_ReturnsBestEffort ==
    (/\ entry = "clean_text" /\ max_retries >= 1
     /\ \A k \in 1..Len(clean_events) :
           clean_events[k].out \notin {"LLMError", "Exception"})
    => /\ Len(Executions) <= max_retries
       /\ Len(Requests) <= max_retries
       /\ \A k \in 1..Len(Executions) :
             Executions[k].out = "valid" =>
                /\ k = Len(Executions)
                /\ returned = <<"return", [code |-> Executions[k].code,
                                           valid |-> TRUE]>>
       /\ (/\ Len(Executions) = max_retries
           /\ \A k \in 1..Len(Executions) : Executions[k].out # "valid"
           /\ ~(pc = "loop" /\ attempt < max_retries))
          => (pc = "loop"
              \/ returned = <<"return", [code |-> LastExecution.code,
                                         valid |-> FALSE]>>)

\* C29, amended: at most n executions and n code requests; the first text
\* that passes is returned at once; after n executions without a pass the
\* text of the n-th execution is returned when that execution produced one,
\* and the SyntaxError of the n-th execution is re-raised when it did not;
\* any other exception of the generated code, of verify_cleaned_text or of
\* an LLM request leaves clean_text at once.  Every code version is executed
\* at most once.
C29_BoundedRetry ==
    (entry = "clean_text" /\ max_retries >= 1) =>
       /\ Len(Executions) <= max_retries
       /\ Len(Requests) <= max_retries
       /\ \A j, k \in 1..Len(Executions) :
             j < k => Executions[j].code < Executions[k].code
       /\ \A k \in 1..Len(Executions) :
             Executions[k].out = "valid" => k = Len(Executions)
       /\ pc = "done" =>
             /\ returned = <<"return", [code |-> LastExecution.code,
                                        valid |-> LastExecution.out = "valid"]>>
             /\ LastExecution.out \in {"valid", "invalid"}
             /\ LastExecution.out = "invalid" => Len(Executions) = max_retries
       /\ pc = "raised" =>
             /\ returned[1] = "raise"
             /\ returned[2] \in {"SyntaxError", "Exception", "LLMError"}
             /\ returned[2] = "SyntaxError" =>
                   /\ Len(Executions) = max_retries
                   /\ LastExecution.out = "SyntaxError"
             /\ returned[2] = "Exception" =>
                   clean_events[Len(clean_events)] = LastExecution
                   /\ LastExecution.out = "Exception"
             /\ returned[2] = "LLMError" =>
                   clean_events[Len(clean_events)].out = "LLMError"
       /\ pc \in {"done", "raised"} =>
             \/ Len(Executions) = max_retries
             \/ clean_events[Len(clean_events)].out = "LLMError"
             \/ LastExecution.out \in {"valid", "Exception"}

\* with max_retries = 2 the first execution produced a text that failed the
\* verification and the second one raised SyntaxError: the call raises
C29_Witness ==
    /\ entry = "clean_text" /\ max_retries = 2 /\ pc = "raised"
    /\ returned = <<"raise", "SyntaxError">>
    /\ Len(Executions) = 2 /\ Len(Requests) = 2
    /\ Executions[1].out = "invalid"
    /\ cleaned = Some([code |-> 1, valid |-> FALSE])

\* ------------------------------------------------------------------ C30
\* what extract_document returns with parallel=False: the chapters in the
\* order of the list extract_chapters returned
SequentialChapters ==
    [k \in 1..Len(chapters_raw) |-> ExtractedChapter(chapters_raw[k])]

\* C30: extract_document with parallel=True returns the chapters in the
\* order of the list extract_chapters returned, which is the order
\* parallel=False returns, whatever the order in which the chapter workers
\* complete.
C30_ChapterOrder ==
    (entry = "document" /\ pc = "done") => extracted_chapters = SequentialChapters

====
